---- MODULE Spec2Model ----
(***************************************************************************)
(* A model of one round of the Riichi Mahjong engine: mahjong/engine/      *)
(* round.py (RoundState and run_round) on top of mahjong/core (tiles,      *)
(* hand, meld, wall) and mahjong/rules (agari, furiten, yaku, fu,          *)
(* scoring).  Tiles are the 136 copy ids; a kind is id \div 4.             *)
(***************************************************************************)
EXTENDS Integers, Sequences, FiniteSets, TLC

\* ------------------------------------------------------------------ tiles
Kinds == 0..33

index34(t) == t \div 4

YAOCHU_INDICES == {0, 8, 9, 17, 18, 26, 27, 28, 29, 30, 31, 32, 33}

RED_DORA_IDS == {16, 52, 88}

NoTile == -1

\* the value of a singleton: One({e(x) : x \in {v}}) is e(v) with v computed once
One(S) == CHOOSE x \in S : TRUE

\* sum of f over the finite set S
RECURSIVE SumOver(_, _)
SumOver(S, f) ==
    IF S = {} THEN 0
    ELSE LET x == CHOOSE y \in S : TRUE IN f[x] + SumOver(S \ {x}, f)

RECURSIVE SumSeq(_)
SumSeq(s) == IF s = << >> THEN 0 ELSE Head(s) + SumSeq(Tail(s))

SeqToSet(s) == {s[i] : i \in DOMAIN s}

\* list.remove(x): drop the first occurrence of x
RemoveFirst(s, x) ==
    LET i == CHOOSE j \in DOMAIN s : s[j] = x /\ \A k \in 1..(j - 1) : s[k] # x
    IN  SubSeq(s, 1, i - 1) \o SubSeq(s, i + 1, Len(s))

tiles_to_34_array(tiles) ==
    [k \in Kinds |-> Cardinality({i \in DOMAIN tiles : index34(tiles[i]) = k})]

\* sum(tiles_34)
Total34(h) ==
    h[0] + h[1] + h[2] + h[3] + h[4] + h[5] + h[6] + h[7] + h[8]
    + h[9] + h[10] + h[11] + h[12] + h[13] + h[14] + h[15] + h[16] + h[17]
    + h[18] + h[19] + h[20] + h[21] + h[22] + h[23] + h[24] + h[25] + h[26]
    + h[27] + h[28] + h[29] + h[30] + h[31] + h[32] + h[33]

next_tile_index(i, is_sanma) ==
    IF i < 9 THEN
        IF is_sanma THEN (IF i = 0 THEN 8 ELSE IF i = 8 THEN 0 ELSE (i + 1) % 9)
        ELSE (i + 1) % 9
    ELSE IF i < 18 THEN 9 + ((i - 9 + 1) % 9)
    ELSE IF i < 27 THEN 18 + ((i - 18 + 1) % 9)
    ELSE IF i < 31 THEN 27 + ((i - 27 + 1) % 4)
    ELSE 31 + ((i - 31 + 1) % 3)

\* ------------------------------------------------------------------ agari
\* first index >= start with a non-zero count, 34 when there is none
NextNonZero(tiles, start) ==
    CHOOSE idx \in start..34 :
        /\ idx = 34 \/ tiles[idx] # 0
        /\ \A j \in start..(idx - 1) : tiles[j] = 0

\* _find_all_mentsu: the lists of mentsu found, in the order they are found
RECURSIVE FindAllMentsu(_, _, _, _)
FindAllMentsu(tiles_arg, start, needed, current_arg) ==
    One({
      IF needed = 0
      THEN (IF \A k \in Kinds : tiles[k] = 0 THEN <<current>> ELSE << >>)
      ELSE One({
             IF idx >= 34 THEN << >>
             ELSE
               (IF tiles[idx] >= 3
                THEN FindAllMentsu([tiles EXCEPT ![idx] = @ - 3], idx, needed - 1,
                                   Append(current, <<"koutsu", idx>>))
                ELSE << >>)
               \o
               (IF idx < 27 /\ idx % 9 <= 6 /\ tiles[idx] >= 1
                   /\ tiles[idx + 1] >= 1 /\ tiles[idx + 2] >= 1
                THEN FindAllMentsu([tiles EXCEPT ![idx] = @ - 1, ![idx + 1] = @ - 1,
                                                 ![idx + 2] = @ - 1],
                                   idx, needed - 1, Append(current, <<"shuntsu", idx>>))
                ELSE << >>)
             : idx \in {NextNonZero(tiles, start)}})
      : tiles \in {tiles_arg}, current \in {current_arg}})

\* the decompositions with the head at this kind or a later one
RECURSIVE DecomposeFrom(_, _, _)
DecomposeFrom(tiles_34, head, needed) ==
    IF head > 33 THEN << >>
    ELSE (IF tiles_34[head] < 2 THEN << >>
          ELSE One({[i \in 1..Len(found) |-> [head |-> head, mentsu |-> found[i]]]
                    : found \in {FindAllMentsu([tiles_34 EXCEPT ![head] = @ - 2], 0,
                                               needed, << >>)}}))
         \o DecomposeFrom(tiles_34, head + 1, needed)

decompose_standard(tiles_arg) ==
    One({IF total % 3 # 2 THEN << >>
         ELSE DecomposeFrom(tiles_34, 0, (total - 2) \div 3)
         : tiles_34 \in {tiles_arg}, total \in {Total34(tiles_arg)}})

is_standard_agari(tiles_34) == Len(decompose_standard(tiles_34)) > 0

is_chiitoi_agari(tiles_34) ==
    /\ Cardinality({k \in Kinds : tiles_34[k] = 2}) = 7
    /\ Total34(tiles_34) = 14

is_kokushi_agari(tiles_34) ==
    /\ \A k \in YAOCHU_INDICES : tiles_34[k] # 0
    /\ \E k \in YAOCHU_INDICES : tiles_34[k] = 2
    /\ \A k \in Kinds \ YAOCHU_INDICES : tiles_34[k] = 0
    /\ Total34(tiles_34) = 14

is_agari(tiles_arg) ==
    \E tiles_34 \in {tiles_arg} :
       \/ is_standard_agari(tiles_34)
       \/ is_chiitoi_agari(tiles_34)
       \/ is_kokushi_agari(tiles_34)

\* ---------------------------------------------------------- rules/shanten.py
\* _backtrack: best is the <<mentsu, partial>> pair handed on from call to call;
\* the chain of calls over kinds with a zero count is taken in one step
RECURSIVE backtrack(_, _, _, _, _, _)
backtrack(tiles, idx, mentsu, partial, max_mentsu, best) ==
    IF idx >= 34
    THEN (IF mentsu * 2 + partial > best[1] * 2 + best[2] THEN <<mentsu, partial>> ELSE best)
    ELSE IF tiles[idx] = 0
    THEN backtrack(tiles, NextNonZero(tiles, idx), mentsu, partial, max_mentsu, best)
    ELSE
      LET can_add_mentsu == mentsu < max_mentsu
          can_add_partial == (mentsu + partial) < max_mentsu
      IN
      One({One({One({One({One({
        \* skip this tile entirely
        backtrack(tiles, idx + 1, mentsu, partial, max_mentsu, b5)
        \* gap pair
        : b5 \in {IF idx < 27 /\ idx % 9 <= 6 /\ can_add_partial
                     /\ tiles[idx] >= 1 /\ tiles[idx + 2] >= 1
                  THEN backtrack([tiles EXCEPT ![idx] = @ - 1, ![idx + 2] = @ - 1],
                                 idx, mentsu, partial + 1, max_mentsu, b4)
                  ELSE b4}})
        \* adjacent pair
        : b4 \in {IF idx < 27 /\ idx % 9 <= 7 /\ can_add_partial
                     /\ tiles[idx] >= 1 /\ tiles[idx + 1] >= 1
                  THEN backtrack([tiles EXCEPT ![idx] = @ - 1, ![idx + 1] = @ - 1],
                                 idx, mentsu, partial + 1, max_mentsu, b3)
                  ELSE b3}})
        \* pair
        : b3 \in {IF tiles[idx] >= 2 /\ can_add_partial
                  THEN backtrack([tiles EXCEPT ![idx] = @ - 2], idx, mentsu, partial + 1,
                                 max_mentsu, b2)
                  ELSE b2}})
        \* shuntsu
        : b2 \in {IF idx < 27 /\ idx % 9 <= 6 /\ can_add_mentsu
                     /\ tiles[idx] >= 1 /\ tiles[idx + 1] >= 1 /\ tiles[idx + 2] >= 1
                  THEN backtrack([tiles EXCEPT ![idx] = @ - 1, ![idx + 1] = @ - 1,
                                               ![idx + 2] = @ - 1],
                                 idx, mentsu + 1, partial, max_mentsu, b1)
                  ELSE b1}})
        \* koutsu
        : b1 \in {IF tiles[idx] >= 3 /\ can_add_mentsu
                  THEN backtrack([tiles EXCEPT ![idx] = @ - 3], idx, mentsu + 1, partial,
                                 max_mentsu, best)
                  ELSE best}})

count_mentsu_and_partial(tiles_34, max_mentsu) ==
    backtrack(tiles_34, 0, 0, 0, max_mentsu, <<0, 0>>)

MinOf(S) == CHOOSE x \in S : \A y \in S : x <= y

shanten_standard(tiles_34) ==
    LET total == Total34(tiles_34) IN
    IF total > 14 \/ total < 2 THEN 8
    ELSE
      LET mentsu_needed == 4 - ((14 - total) \div 3)
          with_head == {(mentsu_needed - c[1]) * 2 - 1 - c[2] :
                          c \in {count_mentsu_and_partial([tiles_34 EXCEPT ![head] = @ - 2],
                                                           mentsu_needed) :
                                    head \in {k \in Kinds : tiles_34[k] >= 2}}}
          without_head == {(mentsu_needed - c[1]) * 2 - c[2] :
                             c \in {count_mentsu_and_partial(tiles_34, mentsu_needed)}}
          best == MinOf({8} \cup with_head \cup without_head)
      IN  IF best > -1 THEN best ELSE -1

shanten_chiitoi(tiles_34) ==
    IF Total34(tiles_34) \notin {13, 14} THEN 99
    ELSE
      LET pairs == Cardinality({k \in Kinds : tiles_34[k] >= 2})
          kinds == Cardinality({k \in Kinds : tiles_34[k] >= 1})
      IN  (6 - pairs) + (IF kinds < 7 THEN 7 - kinds ELSE 0)

shanten_kokushi(tiles_34) ==
    IF Total34(tiles_34) \notin {13, 14} THEN 99
    ELSE
      LET types == Cardinality({k \in YAOCHU_INDICES : tiles_34[k] >= 1})
          has_pair == \E k \in YAOCHU_INDICES : tiles_34[k] >= 2
      IN  13 - types - (IF has_pair THEN 1 ELSE 0)

shanten(tiles_34) ==
    MinOf({shanten_standard(tiles_34), shanten_chiitoi(tiles_34), shanten_kokushi(tiles_34)})

\* the set of the kinds get_waiting_tiles lists
get_waiting_tiles(tiles_arg) ==
    UNION {IF Total34(tiles_34) % 3 # 1 THEN {}
           ELSE {i \in Kinds : tiles_34[i] < 4
                               /\ is_agari([tiles_34 EXCEPT ![i] = @ + 1])}
           : tiles_34 \in {tiles_arg}}

\* ------------------------------------------------------------------ meld
\* Meld: meld_type in "chi", "pon", "ankan", "daiminkan", "shouminkan"
Meld(meld_type, tiles, called_tile, from_player) ==
    [meld_type |-> meld_type, tiles |-> tiles, called_tile |-> called_tile,
     from_player |-> from_player]

NoPlayer == -1

is_open(m) == m.meld_type # "ankan"

is_kan(m) == m.meld_type \in {"ankan", "daiminkan", "shouminkan"}

tile_index34(m) == index34(m.tiles[1])

\* ------------------------------------------------------------------ hand
NewHand ==
    [closed_tiles |-> << >>, melds |-> << >>, discard_pool |-> << >>,
     discard_is_tsumogiri |-> << >>, discard_called |-> << >>,
     draw_tile |-> NoTile, is_riichi |-> FALSE, is_double_riichi |-> FALSE,
     is_ippatsu |-> FALSE, riichi_discard_index |-> -1]

HandDraw(hand, tile) ==
    [hand EXCEPT !.closed_tiles = Append(@, tile), !.draw_tile = tile]

HandDiscard(hand, tile, is_tsumogiri) ==
    [hand EXCEPT !.closed_tiles = RemoveFirst(@, tile),
                 !.discard_pool = Append(@, tile),
                 !.discard_is_tsumogiri = Append(@, is_tsumogiri),
                 !.discard_called = Append(@, FALSE),
                 !.draw_tile = NoTile]

add_meld(hand, m) == [hand EXCEPT !.melds = Append(@, m)]

\* the tiles of S in increasing (index34, id) order, which is id order
RECURSIVE SortedSeq(_)
SortedSeq(S) ==
    IF S = {} THEN << >>
    ELSE LET m == CHOOSE x \in S : \A y \in S : x <= y
         IN  <<m>> \o SortedSeq(S \ {m})

sort_closed(hand) == [hand EXCEPT !.closed_tiles = SortedSeq(SeqToSet(@))]

to_34_array(hand) == tiles_to_34_array(hand.closed_tiles)

is_menzen(hand) == \A i \in DOMAIN hand.melds : ~is_open(hand.melds[i])

\* [t for t in hand.closed_tiles if t.index34 == k], in list order
RECURSIVE TilesOfKind(_, _)
TilesOfKind(tiles, k) ==
    IF tiles = << >> THEN << >>
    ELSE (IF index34(Head(tiles)) = k THEN <<Head(tiles)>> ELSE << >>)
         \o TilesOfKind(Tail(tiles), k)

\* remove from closed, in order, every tile of ts that is in it
RECURSIVE RemoveEach(_, _)
RemoveEach(closed, ts) ==
    IF ts = << >> THEN closed
    ELSE IF Head(ts) \in SeqToSet(closed)
         THEN RemoveEach(RemoveFirst(closed, Head(ts)), Tail(ts))
         ELSE RemoveEach(closed, Tail(ts))

\* ------------------------------------------------------------------ wall
WallFromTiles(live_wall_tiles, dead_wall_tiles, is_sanma) ==
    [live_wall |-> live_wall_tiles, dead_wall |-> dead_wall_tiles,
     dora_revealed |-> 1, rinshan_drawn |-> 0, is_sanma |-> is_sanma]

remaining(wall) == Len(wall.live_wall)

is_empty(wall) == Len(wall.live_wall) = 0

rinshan_tile_forward(wall) ==
    IF wall.rinshan_drawn < 4 THEN wall.dead_wall[(10 + wall.rinshan_drawn) + 1]
    ELSE NoTile

\* Wall.draw_rinshan: the tile handed out, NoTile after four
rinshan_tile(wall) ==
    IF wall.rinshan_drawn < 4 THEN wall.dead_wall[(13 - wall.rinshan_drawn) + 1]
    ELSE NoTile

draw_rinshan(wall) ==
    IF wall.rinshan_drawn < 4 THEN [wall EXCEPT !.rinshan_drawn = @ + 1] ELSE wall

reveal_new_dora(wall) ==
    IF wall.dora_revealed < 5 THEN [wall EXCEPT !.dora_revealed = @ + 1] ELSE wall

dora_indicators(wall) ==
    [i \in 1..wall.dora_revealed |-> wall.dead_wall[(i - 1) * 2 + 1]]

uradora_indicators(wall) ==
    [i \in 1..wall.dora_revealed |-> wall.dead_wall[(i - 1) * 2 + 1 + 1]]

get_dora_tiles_34(wall) ==
    [i \in 1..wall.dora_revealed |->
        next_tile_index(index34(dora_indicators(wall)[i]), wall.is_sanma)]

get_uradora_tiles_34(wall) ==
    [i \in 1..wall.dora_revealed |->
        next_tile_index(index34(uradora_indicators(wall)[i]), wall.is_sanma)]

\* ---------------------------------------------------------------- furiten
get_hand_waiting_tiles(hand) == get_waiting_tiles(to_34_array(hand))

\* variant: a discard another seat has called no longer counts
is_discard_furiten_uncalled(hand) ==
    \E closed_34 \in {to_34_array(hand)} :
       IF Total34(closed_34) % 3 # 1 THEN FALSE
       ELSE \E waits \in {get_waiting_tiles(closed_34)} :
               \E w \in waits :
                  w \in {index34(hand.discard_pool[i]) :
                           i \in {j \in DOMAIN hand.discard_pool : ~hand.discard_called[j]}}

is_discard_furiten(hand) ==
    \E closed_34 \in {to_34_array(hand)} :
       IF Total34(closed_34) % 3 # 1 THEN FALSE
       ELSE \E waits \in {get_waiting_tiles(closed_34)} :
               IF waits = {} THEN FALSE
               ELSE \E w \in waits :
                       w \in {index34(hand.discard_pool[i]) : i \in DOMAIN hand.discard_pool}

\* ------------------------------------------------------------------- yaku
\* HandContext.all_mentsu: the closed groups, then one group per meld
all_mentsu(ctx) ==
    ctx.mentsu \o
    [i \in DOMAIN ctx.melds |->
        LET m == ctx.melds[i] IN
        IF m.meld_type = "chi"
        THEN <<"shuntsu", CHOOSE k \in {index34(m.tiles[j]) : j \in DOMAIN m.tiles} :
                              \A j \in DOMAIN m.tiles : k <= index34(m.tiles[j])>>
        ELSE <<"koutsu", tile_index34(m)>>]

Yaku(cond, name, han) == IF cond THEN << <<name, han>> >> ELSE << >>

check_riichi(ctx) == Yaku(ctx.is_riichi /\ ~ctx.is_double_riichi, "riichi", 1)

check_double_riichi(ctx) == Yaku(ctx.is_double_riichi, "double_riichi", 2)

check_ippatsu(ctx) == Yaku(ctx.is_ippatsu, "ippatsu", 1)

check_tsumo(ctx) == Yaku(ctx.is_tsumo /\ ctx.is_menzen, "menzen_tsumo", 1)

check_tanyao(ctx) ==
    Yaku(~\E i \in Kinds : ctx.all_tiles_34[i] > 0 /\ i \in YAOCHU_INDICES, "tanyao", 1)

check_pinfu(ctx) ==
    LET all_m == all_mentsu(ctx)
        win == ctx.win_tile_34
    IN  Yaku(/\ ctx.is_menzen /\ ~ctx.is_chiitoi /\ ~ctx.is_kokushi
             /\ \A i \in DOMAIN all_m : all_m[i][1] = "shuntsu"
             /\ ctx.head_34 \notin {31, 32, 33}
             /\ ctx.head_34 # ctx.seat_wind_34
             /\ ctx.head_34 # ctx.round_wind_34
             /\ \E i \in DOMAIN ctx.mentsu :
                   /\ ctx.mentsu[i][1] = "shuntsu"
                   /\ \/ (win = ctx.mentsu[i][2] /\ ctx.mentsu[i][2] % 9 # 6)
                      \/ (win = ctx.mentsu[i][2] + 2 /\ ctx.mentsu[i][2] % 9 # 0),
             "pinfu", 1)

\* sum(v // 2 for v in seen.values()) over the closed sequences
PeikouPairs(ctx) ==
    LET starts == {ctx.mentsu[i][2] : i \in {j \in DOMAIN ctx.mentsu :
                                             ctx.mentsu[j][1] = "shuntsu"}}
        cnt == [s \in starts |->
                  Cardinality({j \in DOMAIN ctx.mentsu :
                                 ctx.mentsu[j] = <<"shuntsu", s>>}) \div 2]
    IN  SumOver(starts, cnt)

check_iipeikou(ctx) == Yaku(ctx.is_menzen /\ PeikouPairs(ctx) = 1, "iipeikou", 1)

check_ryanpeikou(ctx) == Yaku(ctx.is_menzen /\ PeikouPairs(ctx) >= 2, "ryanpeikou", 3)

HasKoutsu(ctx, k) ==
    LET all_m == all_mentsu(ctx) IN \E i \in DOMAIN all_m : all_m[i] = <<"koutsu", k>>

check_yakuhai_seat_wind(ctx) == Yaku(HasKoutsu(ctx, ctx.seat_wind_34), "seat_wind", 1)

check_yakuhai_round_wind(ctx) == Yaku(HasKoutsu(ctx, ctx.round_wind_34), "round_wind", 1)

check_yakuhai_haku(ctx) == Yaku(HasKoutsu(ctx, 31), "haku", 1)

check_yakuhai_hatsu(ctx) == Yaku(HasKoutsu(ctx, 32), "hatsu", 1)

check_yakuhai_chun(ctx) == Yaku(HasKoutsu(ctx, 33), "chun", 1)

check_haitei(ctx) == Yaku(ctx.is_haitei /\ ctx.is_tsumo, "haitei", 1)

check_houtei(ctx) == Yaku(ctx.is_houtei /\ ~ctx.is_tsumo, "houtei", 1)

check_rinshan(ctx) == Yaku(ctx.is_rinshan, "rinshan", 1)

check_chankan(ctx) == Yaku(ctx.is_chankan, "chankan", 1)

check_chanta(ctx) ==
    LET all_m == all_mentsu(ctx)
        K == {i \in DOMAIN all_m : all_m[i][1] = "koutsu"}
        S == {i \in DOMAIN all_m : all_m[i][1] = "shuntsu"}
        head == ctx.head_34
        groups_ok == /\ \A i \in K : all_m[i][2] >= 27 \/ all_m[i][2] \in YAOCHU_INDICES
                     /\ \A i \in S : all_m[i][2] % 9 = 0 \/ all_m[i][2] % 9 = 6
        head_ok == head >= 27 \/ head \in YAOCHU_INDICES
        has_honor == (\E i \in K : all_m[i][2] >= 27) \/ head >= 27
        has_number == \/ \E i \in K : all_m[i][2] < 27 /\ all_m[i][2] \in YAOCHU_INDICES
                      \/ S # {}
                      \/ (head < 27 /\ head \in YAOCHU_INDICES)
    IN  Yaku(/\ ~ctx.is_chiitoi /\ ~ctx.is_kokushi
             /\ Len(all_m) # 0
             /\ groups_ok /\ head_ok /\ has_honor /\ has_number /\ S # {},
             "chanta", IF ~ctx.is_menzen THEN 1 ELSE 2)

check_junchan(ctx) ==
    LET all_m == all_mentsu(ctx)
        K == {i \in DOMAIN all_m : all_m[i][1] = "koutsu"}
        S == {i \in DOMAIN all_m : all_m[i][1] = "shuntsu"}
        head == ctx.head_34
    IN  Yaku(/\ ~ctx.is_chiitoi /\ ~ctx.is_kokushi
             /\ Len(all_m) # 0
             /\ \A i \in K : ~(all_m[i][2] >= 27 \/ all_m[i][2] \notin YAOCHU_INDICES)
             /\ \A i \in S : ~(all_m[i][2] % 9 # 0 /\ all_m[i][2] % 9 # 6)
             /\ ~(head >= 27 \/ head \notin YAOCHU_INDICES)
             /\ S # {},
             "junchan", IF ~ctx.is_menzen THEN 2 ELSE 3)

ShuntsuSet(ctx) ==
    LET all_m == all_mentsu(ctx)
    IN  {all_m[i][2] : i \in {j \in DOMAIN all_m : all_m[j][1] = "shuntsu"}}

KoutsuSet(ctx) ==
    LET all_m == all_mentsu(ctx)
    IN  {all_m[i][2] : i \in {j \in DOMAIN all_m : all_m[j][1] = "koutsu"}}

check_ittsu(ctx) ==
    LET shuntsu_set == ShuntsuSet(ctx) IN
    Yaku(\E suit_start \in {0, 9, 18} :
            /\ suit_start \in shuntsu_set
            /\ suit_start + 3 \in shuntsu_set
            /\ suit_start + 6 \in shuntsu_set,
         "ittsu", IF ~ctx.is_menzen THEN 1 ELSE 2)

check_sanshoku_doujun(ctx) ==
    LET shuntsu_list == ShuntsuSet(ctx) IN
    Yaku(\E s \in shuntsu_list :
            /\ s < 9
            /\ (s % 9) + 9 \in shuntsu_list
            /\ (s % 9) + 18 \in shuntsu_list
            /\ (s % 9) \in shuntsu_list,
         "sanshoku_doujun", IF ~ctx.is_menzen THEN 1 ELSE 2)

check_sanshoku_doukou(ctx) ==
    LET koutsu_set == KoutsuSet(ctx) IN
    Yaku(\E k \in koutsu_set :
            k < 9 /\ (k % 9) + 9 \in koutsu_set /\ (k % 9) + 18 \in koutsu_set,
         "sanshoku_doukou", 2)

check_toitoi(ctx) ==
    LET all_m == all_mentsu(ctx) IN
    Yaku(/\ ~ctx.is_chiitoi
         /\ Len(all_m) = 4
         /\ \A i \in DOMAIN all_m : all_m[i][1] = "koutsu",
         "toitoi", 2)

\* closed triplets of the decomposition plus closed kans
ClosedKoutsu(ctx) ==
    Cardinality({i \in DOMAIN ctx.mentsu : ctx.mentsu[i][1] = "koutsu"})
    + Cardinality({i \in DOMAIN ctx.melds : ctx.melds[i].meld_type = "ankan"})

WinInShuntsu(mentsu, win) ==
    \E i \in DOMAIN mentsu :
        mentsu[i][1] = "shuntsu" /\ win \in {mentsu[i][2], mentsu[i][2] + 1, mentsu[i][2] + 2}

WinIsKoutsu(mentsu, win) == \E i \in DOMAIN mentsu : mentsu[i] = <<"koutsu", win>>

check_sanankou(ctx) ==
    LET closed_koutsu ==
            ClosedKoutsu(ctx)
            - (IF /\ ~ctx.is_tsumo
                  /\ WinIsKoutsu(ctx.mentsu, ctx.win_tile_34)
                  /\ ~WinInShuntsu(ctx.mentsu, ctx.win_tile_34)
               THEN 1 ELSE 0)
    IN  Yaku(~ctx.is_chiitoi /\ closed_koutsu = 3, "sanankou", 2)

check_honroutou(ctx) ==
    Yaku(/\ \A i \in Kinds : ~(ctx.all_tiles_34[i] > 0 /\ i \notin YAOCHU_INDICES)
         /\ \E i \in YAOCHU_INDICES : i < 27 /\ ctx.all_tiles_34[i] > 0
         /\ \E i \in 27..33 : ctx.all_tiles_34[i] > 0,
         "honroutou", 2)

DragonKoutsu(ctx) ==
    LET all_m == all_mentsu(ctx)
    IN  Cardinality({i \in DOMAIN all_m :
                       all_m[i][1] = "koutsu" /\ 31 <= all_m[i][2] /\ all_m[i][2] <= 33})

WindKoutsu(ctx) ==
    LET all_m == all_mentsu(ctx)
    IN  Cardinality({i \in DOMAIN all_m :
                       all_m[i][1] = "koutsu" /\ 27 <= all_m[i][2] /\ all_m[i][2] <= 30})

check_shousangen(ctx) ==
    Yaku(DragonKoutsu(ctx) = 2 /\ 31 <= ctx.head_34 /\ ctx.head_34 <= 33,
         "shousangen", 2)

check_chiitoi(ctx) == Yaku(ctx.is_chiitoi, "chiitoi", 2)

SuitsPresent(ctx) ==
    {IF i < 9 THEN "m" ELSE IF i < 18 THEN "p" ELSE "s" :
        i \in {j \in 0..26 : ctx.all_tiles_34[j] > 0}}

HasHonorTile(ctx) == \E i \in 27..33 : ctx.all_tiles_34[i] > 0

check_honitsu(ctx) ==
    Yaku(Cardinality(SuitsPresent(ctx)) = 1 /\ HasHonorTile(ctx),
         "honitsu", IF ~ctx.is_menzen THEN 2 ELSE 3)

check_chinitsu(ctx) ==
    Yaku(Cardinality(SuitsPresent(ctx)) = 1 /\ ~HasHonorTile(ctx),
         "chinitsu", IF ~ctx.is_menzen THEN 5 ELSE 6)

check_suuankou(ctx) ==
    LET closed_koutsu ==
            ClosedKoutsu(ctx)
            - (IF ~ctx.is_tsumo /\ WinIsKoutsu(ctx.mentsu, ctx.win_tile_34)
               THEN 1 ELSE 0)
    IN  Yaku(~ctx.is_chiitoi /\ ~ctx.is_kokushi /\ closed_koutsu = 4, "suuankou", 13)

check_daisangen(ctx) == Yaku(DragonKoutsu(ctx) = 3, "daisangen", 13)

check_shousuushii(ctx) ==
    Yaku(WindKoutsu(ctx) = 3 /\ 27 <= ctx.head_34 /\ ctx.head_34 <= 30,
         "shousuushii", 13)

check_daisuushii(ctx) == Yaku(WindKoutsu(ctx) = 4, "daisuushii", 13)

check_tsuuiisou(ctx) ==
    Yaku(\A i \in 0..26 : ~(ctx.all_tiles_34[i] > 0), "tsuuiisou", 13)

check_chinroutou(ctx) ==
    Yaku(\A i \in Kinds : ~(ctx.all_tiles_34[i] > 0 /\ i \notin {0, 8, 9, 17, 18, 26}),
         "chinroutou", 13)

check_ryuuiisou(ctx) ==
    Yaku(\A i \in Kinds : ~(ctx.all_tiles_34[i] > 0 /\ i \notin {19, 20, 21, 23, 25, 32}),
         "ryuuiisou", 13)

check_chuuren(ctx) ==
    LET first == NextNonZero(ctx.all_tiles_34, 0)
        suit_start == IF first < 9 THEN 0 ELSE IF first < 18 THEN 9 ELSE 18
        required == <<3, 1, 1, 1, 1, 1, 1, 1, 3>>
    IN  Yaku(/\ ctx.is_menzen
             /\ first < 27
             /\ \A i \in Kinds : ctx.all_tiles_34[i] > 0 =>
                                     (suit_start <= i /\ i < suit_start + 9)
             /\ \A j \in 0..8 : ~(ctx.all_tiles_34[suit_start + j] < required[j + 1]),
             "chuuren", 13)

check_suukantsu(ctx) ==
    Yaku(Cardinality({i \in DOMAIN ctx.melds : is_kan(ctx.melds[i])}) = 4,
         "suukantsu", 13)

check_yakuman(ctx) ==
    Yaku(ctx.is_tenhou, "tenhou", 13) \o Yaku(ctx.is_chiihou, "chiihou", 13)
    \o Yaku(ctx.is_kokushi, "kokushi", 13)
    \o check_suuankou(ctx) \o check_daisangen(ctx) \o check_shousuushii(ctx)
    \o check_daisuushii(ctx) \o check_tsuuiisou(ctx) \o check_chinroutou(ctx)
    \o check_ryuuiisou(ctx) \o check_chuuren(ctx) \o check_suukantsu(ctx)

detect_all_yaku(ctx) ==
    LET yakuman == check_yakuman(ctx) IN
    IF yakuman # << >> THEN yakuman
    ELSE check_riichi(ctx) \o check_double_riichi(ctx) \o check_ippatsu(ctx)
         \o check_tsumo(ctx) \o check_tanyao(ctx) \o check_pinfu(ctx)
         \o check_iipeikou(ctx) \o check_ryanpeikou(ctx)
         \o check_yakuhai_seat_wind(ctx) \o check_yakuhai_round_wind(ctx)
         \o check_yakuhai_haku(ctx) \o check_yakuhai_hatsu(ctx) \o check_yakuhai_chun(ctx)
         \o check_haitei(ctx) \o check_houtei(ctx) \o check_rinshan(ctx)
         \o check_chankan(ctx)
         \o check_chanta(ctx) \o check_junchan(ctx) \o check_ittsu(ctx)
         \o check_sanshoku_doujun(ctx) \o check_sanshoku_doukou(ctx)
         \o check_toitoi(ctx) \o check_sanankou(ctx)
         \o check_honroutou(ctx) \o check_shousangen(ctx)
         \o check_chiitoi(ctx) \o check_honitsu(ctx) \o check_chinitsu(ctx)
         \o Yaku(ctx.dora_count > 0, "dora", ctx.dora_count)
         \o Yaku(ctx.uradora_count > 0, "uradora", ctx.uradora_count)
         \o Yaku(ctx.red_dora_count > 0, "akadora", ctx.red_dora_count)

total_han(yaku_list) == SumSeq([i \in DOMAIN yaku_list |-> yaku_list[i][2]])

has_yaku(yaku_list) ==
    \E i \in DOMAIN yaku_list : yaku_list[i][1] \notin {"dora", "uradora", "akadora"}

\* --------------------------------------------------------------------- fu
round_up_10(fu) == ((fu + 9) \div 10) * 10

calculate_wait_fu(head_34, mentsu_list, win_tile_34) ==
    IF win_tile_34 = head_34 THEN 2
    ELSE IF \E i \in DOMAIN mentsu_list :
               LET m_idx == mentsu_list[i][2] IN
               /\ mentsu_list[i][1] = "shuntsu"
               /\ win_tile_34 \in {m_idx, m_idx + 1, m_idx + 2}
               /\ \/ win_tile_34 = m_idx + 1
                  \/ (m_idx % 9 = 0 /\ win_tile_34 = m_idx + 2)
                  \/ (m_idx % 9 = 6 /\ win_tile_34 = m_idx)
         THEN 2
         ELSE 0

\* fu of the closed groups; on a ron the first triplet of the winning kind
\* counts as open unless the winning tile also sits in a sequence
MentsuFu(mentsu_list, win_tile_34, is_tsumo) ==
    LET win_in_shuntsu == WinInShuntsu(mentsu_list, win_tile_34)
        K == {i \in DOMAIN mentsu_list : mentsu_list[i][1] = "koutsu"}
        is_win_koutsu(i) ==
            /\ ~is_tsumo /\ ~win_in_shuntsu
            /\ mentsu_list[i][2] = win_tile_34
            /\ \A j \in K : j < i => mentsu_list[j][2] # win_tile_34
        base == [i \in K |->
                   LET is_yaochu == mentsu_list[i][2] \in YAOCHU_INDICES IN
                   IF is_win_koutsu(i) THEN (IF is_yaochu THEN 4 ELSE 2)
                   ELSE (IF is_yaochu THEN 8 ELSE 4)]
    IN  SumOver(K, base)

MeldFu(melds) ==
    LET f == [i \in DOMAIN melds |->
                LET is_yaochu == tile_index34(melds[i]) \in YAOCHU_INDICES
                    t == melds[i].meld_type
                IN  IF t = "ankan" THEN (IF is_yaochu THEN 32 ELSE 16)
                    ELSE IF t \in {"daiminkan", "shouminkan"}
                         THEN (IF is_yaochu THEN 16 ELSE 8)
                    ELSE IF t = "pon" THEN (IF is_yaochu THEN 4 ELSE 2)
                    ELSE 0]
    IN  SumSeq(f)

calculate_fu(head_34, mentsu_list, melds, win_tile_34, is_tsumo, menzen, seat_wind_34, round_wind_34, is_pinfu, is_chiitoi) ==
    IF is_chiitoi THEN 25
    ELSE
      LET fu == 20
                + MentsuFu(mentsu_list, win_tile_34, is_tsumo)
                + MeldFu(melds)
                + (IF head_34 = seat_wind_34 THEN 2 ELSE 0)
                + (IF head_34 = round_wind_34 THEN 2 ELSE 0)
                + (IF head_34 \in {31, 32, 33} THEN 2 ELSE 0)
                + calculate_wait_fu(head_34, mentsu_list, win_tile_34)
                + (IF is_tsumo THEN (IF ~is_pinfu THEN 2 ELSE 0)
                   ELSE (IF menzen THEN 10 ELSE 0))
      IN  IF is_pinfu /\ is_tsumo THEN 20
          ELSE IF is_pinfu /\ ~is_tsumo /\ menzen THEN 30
          ELSE IF fu = 20 /\ ~menzen THEN round_up_10(30)
          ELSE round_up_10(fu)

\* ---------------------------------------------------------------- scoring
NoScore == [is_none |-> TRUE]

RECURSIVE Pow2(_)
Pow2(n) == IF n <= 0 THEN 1 ELSE 2 * Pow2(n - 1)

calculate_base_points(han, fu) ==
    IF han >= 13 THEN 8000
    ELSE IF han >= 11 THEN 6000
    ELSE IF han >= 8 THEN 4000
    ELSE IF han >= 6 THEN 3000
    ELSE IF han >= 5 THEN 2000
    ELSE LET base == fu * Pow2(2 + han) IN IF base >= 2000 THEN 2000 ELSE base

round_up_100(points) == ((points + 99) \div 100) * 100

build_score_result(yaku_list, han_val, fu_val, base_points, is_dealer, is_tsumo, honba, is_sanma) ==
    LET honba_bonus_ron == 300 * honba
        honba_bonus_tsumo_each == 100 * honba
        R(total, dealer_pay, non_dealer_pay, ron_pay) ==
            [is_none |-> FALSE, yaku |-> yaku_list, han |-> han_val, fu |-> fu_val,
             base_points |-> base_points, total_points |-> total,
             dealer_payment |-> dealer_pay, non_dealer_payment |-> non_dealer_pay,
             ron_payment |-> ron_pay, is_dealer |-> is_dealer, is_tsumo |-> is_tsumo,
             honba |-> honba]
    IN  IF is_tsumo THEN
            IF is_dealer THEN
                LET each_pay == round_up_100(base_points * 2) + honba_bonus_tsumo_each
                    num_payers == IF is_sanma THEN 2 ELSE 3
                IN  R(each_pay * num_payers, 0, each_pay, 0)
            ELSE
                LET dealer_pay == round_up_100(base_points * 2) + honba_bonus_tsumo_each
                    non_dealer_pay == round_up_100(base_points) + honba_bonus_tsumo_each
                IN  R(IF is_sanma THEN dealer_pay + non_dealer_pay
                      ELSE dealer_pay + non_dealer_pay * 2,
                      dealer_pay, non_dealer_pay, 0)
        ELSE
            LET ron_pay == IF is_dealer
                           THEN round_up_100(base_points * 6) + honba_bonus_ron
                           ELSE round_up_100(base_points * 4) + honba_bonus_ron
            IN  R(ron_pay, 0, 0, ron_pay)

\* the fu of an evaluated context
context_fu(ctx, is_pinfu) ==
    IF ctx.is_kokushi THEN 30
    ELSE IF ctx.is_chiitoi THEN 25
    ELSE calculate_fu(ctx.head_34, ctx.mentsu, ctx.melds,
                      ctx.win_tile_34, ctx.is_tsumo, ctx.is_menzen,
                      ctx.seat_wind_34, ctx.round_wind_34,
                      is_pinfu, ctx.is_chiitoi)

evaluate_context(ctx_arg, is_dealer, honba, is_sanma) ==
    One({
      One({
        IF ~has_yaku(yaku_list) THEN NoScore
        ELSE One({
               build_score_result(yaku_list, han_val, fu_val,
                                  calculate_base_points(han_val, fu_val),
                                  is_dealer, ctx.is_tsumo, honba, is_sanma)
               : han_val \in {total_han(yaku_list)},
                 fu_val \in {context_fu(ctx, \E i \in DOMAIN yaku_list :
                                                  yaku_list[i][1] = "pinfu")}})
        : yaku_list \in {detect_all_yaku(ctx)}})
      : ctx \in {ctx_arg}})

\* the keyword arguments of calculate_score at their defaults
ScoreOpts ==
    [is_tsumo |-> FALSE, seat_wind_34 |-> 27, round_wind_34 |-> 27,
     is_dealer |-> FALSE, dora_tiles_34 |-> << >>, uradora_tiles_34 |-> << >>,
     honba |-> 0, is_riichi |-> FALSE, is_double_riichi |-> FALSE,
     is_ippatsu |-> FALSE, is_haitei |-> FALSE, is_houtei |-> FALSE,
     is_rinshan |-> FALSE, is_chankan |-> FALSE, is_tenhou |-> FALSE,
     is_chiihou |-> FALSE, is_sanma |-> FALSE]

RECURSIVE MeldTiles(_)
MeldTiles(melds) ==
    IF melds = << >> THEN << >> ELSE Head(melds).tiles \o MeldTiles(Tail(melds))

build_context(head, mentsu_list, hand, win_tile, o, dora_count, uradora_count, red_dora_count, is_chiitoi, is_kokushi) ==
    [head_34 |-> head, mentsu |-> mentsu_list,
     closed_tiles_34 |-> to_34_array(hand), melds |-> hand.melds,
     all_tiles_34 |-> tiles_to_34_array(hand.closed_tiles \o MeldTiles(hand.melds)),
     win_tile_34 |-> index34(win_tile), is_tsumo |-> o.is_tsumo,
     is_menzen |-> is_menzen(hand), is_riichi |-> o.is_riichi,
     is_double_riichi |-> o.is_double_riichi, is_ippatsu |-> o.is_ippatsu,
     seat_wind_34 |-> o.seat_wind_34, round_wind_34 |-> o.round_wind_34,
     is_haitei |-> o.is_haitei, is_houtei |-> o.is_houtei,
     is_rinshan |-> o.is_rinshan, is_chankan |-> o.is_chankan,
     is_tenhou |-> o.is_tenhou, is_chiihou |-> o.is_chiihou,
     is_chiitoi |-> is_chiitoi, is_kokushi |-> is_kokushi,
     dora_count |-> dora_count, uradora_count |-> uradora_count,
     red_dora_count |-> red_dora_count]

\* the first result of the list with the largest total_points (a later one
\* replaces the best so far only when strictly larger), NoScore when none
PickBetter(best, r) ==
    IF ~r.is_none /\ (best.is_none \/ r.total_points > best.total_points)
    THEN r ELSE best

RECURSIVE BestFrom(_, _, _)
BestFrom(results, i, best) ==
    IF i > Len(results) THEN best
    ELSE One({BestFrom(results, i + 1, b) : b \in {PickBetter(best, results[i])}})

BestResult(results_arg, best) ==
    One({BestFrom(results, 1, best) : results \in {results_arg}})

\* the dora, ura-dora and red-five counts of the whole hand
dora_counts(hand, o) ==
    One({[dora |-> SumSeq([i \in DOMAIN o.dora_tiles_34 |->
                            all_tiles_34[o.dora_tiles_34[i]]]),
          red |-> Cardinality({i \in DOMAIN all_tiles :
                                 all_tiles[i] \in RED_DORA_IDS}),
          ura |-> IF o.is_riichi \/ o.is_double_riichi
                  THEN SumSeq([i \in DOMAIN o.uradora_tiles_34 |->
                                 all_tiles_34[o.uradora_tiles_34[i]]])
                  ELSE 0]
         : all_tiles \in {hand.closed_tiles \o MeldTiles(hand.melds)},
           all_tiles_34 \in {tiles_to_34_array(hand.closed_tiles
                                               \o MeldTiles(hand.melds))}})

\* the contexts calculate_score evaluates, in its order: one per standard
\* decomposition, then seven pairs, then thirteen orphans
score_contexts(hand, win_tile, o, c, closed_34) ==
    One({[i \in DOMAIN decompositions |->
            build_context(decompositions[i].head, decompositions[i].mentsu, hand,
                          win_tile, o, c.dora, c.ura, c.red, FALSE, FALSE)]
         : decompositions \in {decompose_standard(closed_34)}})
    \o (IF is_chiitoi_agari(closed_34) /\ Len(hand.melds) = 0
        THEN <<build_context(-1, << >>, hand, win_tile, o, c.dora, c.ura, c.red,
                             TRUE, FALSE)>>
        ELSE << >>)
    \o (IF is_kokushi_agari(closed_34) /\ Len(hand.melds) = 0
        THEN <<build_context(-1, << >>, hand, win_tile, o, c.dora, c.ura, c.red,
                             FALSE, TRUE)>>
        ELSE << >>)

calculate_score(hand_arg, win_tile, o_arg) ==
    One({
      One({BestResult([i \in DOMAIN ctxs |->
                         evaluate_context(ctxs[i], o.is_dealer, o.honba, o.is_sanma)],
                      NoScore)
           : ctxs \in {score_contexts(hand, win_tile, o, dora_counts(hand, o),
                                      to_34_array(hand))}})
      : hand \in {hand_arg}, o \in {o_arg}})

\* ------------------------------------------------------------ round state
NoResult == [is_none |-> TRUE]

\* RoundResult()
NewRoundResult ==
    [is_none |-> FALSE, winners |-> << >>, loser |-> NoPlayer, score_results |-> << >>,
     score_changes |-> [i \in 0..3 |-> 0], is_draw |-> FALSE, draw_type |-> "",
     tenpai_players |-> << >>, dealer_continues |-> FALSE,
     riichi_sticks_winner |-> NoPlayer]

\* PlayerState(seat, name, score) after reset_for_round(seat_wind, is_dealer)
NewPlayer(seat, score, seat_wind, is_dealer) ==
    [seat |-> seat, score |-> score, hand |-> NewHand, seat_wind |-> seat_wind,
     is_dealer |-> is_dealer, kita_tiles |-> << >>]

\* RoundState(players, wall, round_wind, honba, riichi_sticks, event_bus, is_sanma)
NewRoundState(players, wall, round_wind, honba, riichi_sticks, is_sanma) ==
    LET n == IF is_sanma THEN 3 ELSE 4 IN
    [players |-> players, wall |-> wall, round_wind |-> round_wind, honba |-> honba,
     riichi_sticks |-> riichi_sticks, is_sanma |-> is_sanma, num_players |-> n,
     current_player |-> 0, turn_count |-> 0,
     first_draw |-> [i \in 0..(n - 1) |-> TRUE],
     kan_count_total |-> 0, last_discard |-> NoTile, last_discard_player |-> NoPlayer,
     is_rinshan |-> FALSE, is_haitei |-> FALSE,
     temp_furiten |-> [i \in 0..(n - 1) |-> {}],
     riichi_furiten |-> [i \in 0..(n - 1) |-> {}],
     first_discard_winds |-> << >>, riichi_declared_count |-> 0,
     result |-> NoResult, is_finished |-> FALSE]

Seats(r) == 0..(r.num_players - 1)

\* GameState.setup_round: seat winds and dealer flag from the dealer seat
setup_round(scores, dealer_seat, wall, round_wind, honba, riichi_sticks, is_sanma) ==
    LET n == IF is_sanma THEN 3 ELSE 4
        players == [i \in 0..(n - 1) |->
                      LET wind_idx == (i - dealer_seat) % n
                      IN  NewPlayer(i, scores[i + 1], wind_idx, wind_idx = 0)]
    IN  [NewRoundState(players, wall, round_wind, honba, riichi_sticks, is_sanma)
            EXCEPT !.current_player = dealer_seat]

wind_index34(w) == 27 + w

\* deal_tiles: thirteen rounds of one tile per seat, as far as the wall goes
deal_tiles(r) ==
    LET n == r.num_players
        live == r.wall.live_wall
        dealt == IF Len(live) < 13 * n THEN Len(live) ELSE 13 * n
        got(i) == {live[k] : k \in {j \in 1..dealt : (j - 1) % n = i}}
    IN  [r EXCEPT
           !.wall.live_wall = SubSeq(live, dealt + 1, Len(live)),
           !.players = [i \in Seats(r) |->
                           [r.players[i] EXCEPT
                              !.hand.closed_tiles = SortedSeq(got(i)),
                              !.hand.draw_tile = NoTile]]]

\* AvailableActions(player)
NewAvailable(player) ==
    [player |-> player, can_tsumo |-> FALSE, can_riichi |-> FALSE,
     can_ankan |-> << >>, can_shouminkan |-> << >>, can_discard |-> << >>,
     can_chi |-> << >>, can_pon |-> << >>, can_daiminkan |-> << >>,
     can_ron |-> FALSE, can_kita |-> FALSE, can_kyuushu |-> FALSE,
     riichi_candidates |-> << >>]

\* the first tile of each kind of the closed tiles, in list order
RECURSIVE FirstOfKinds(_, _)
FirstOfKinds(tiles, seen) ==
    IF tiles = << >> THEN << >>
    ELSE IF index34(Head(tiles)) \in seen THEN FirstOfKinds(Tail(tiles), seen)
    ELSE <<Head(tiles)>> \o FirstOfKinds(Tail(tiles), seen \cup {index34(Head(tiles))})

KeepTenpaiDiscards(cands, closed_34) ==
    LET keeps_tenpai(tile) ==
            get_waiting_tiles([closed_34 EXCEPT ![index34(tile)] = @ - 1]) # {}
    IN  SelectSeq(cands, keeps_tenpai)

get_riichi_candidates(r, player_idx) ==
    One({KeepTenpaiDiscards(cands, closed_34)
         : cands \in {FirstOfKinds(r.players[player_idx].hand.closed_tiles, {})},
           closed_34 \in {to_34_array(r.players[player_idx].hand)}})

\* the groups of four of the closed tiles a closed kan may take, by kind
AnkanGroups(hand, closed_34) ==
    LET may_kan(i) ==
            /\ closed_34[i] = 4
            /\ (hand.is_riichi =>
                  \E test_34 \in {[closed_34 EXCEPT ![i] = @ - 4]} :
                     Total34(test_34) % 3 = 1 /\ get_waiting_tiles(test_34) # {})
        kinds == SelectSeq([k \in 1..34 |-> k - 1], may_kan)
    IN  [k \in DOMAIN kinds |-> TilesOfKind(hand.closed_tiles, kinds[k])]

RECURSIVE ShouminkanTiles(_, _)
ShouminkanTiles(melds, closed) ==
    IF melds = << >> THEN << >>
    ELSE LET matching == TilesOfKind(closed, tile_index34(Head(melds))) IN
         (IF Head(melds).meld_type = "pon" /\ matching # << >>
          THEN <<matching[1]>> ELSE << >>)
         \o ShouminkanTiles(Tail(melds), closed)

riichi_tiles_of_any_wall(r, player_idx) ==
    IF /\ is_menzen(r.players[player_idx].hand)
       /\ ~r.players[player_idx].hand.is_riichi
       /\ r.players[player_idx].score >= 1000
    THEN get_riichi_candidates(r, player_idx)
    ELSE << >>

\* the riichi candidates when riichi may be declared at all
riichi_tiles_of(r, player_idx) ==
    IF /\ is_menzen(r.players[player_idx].hand)
       /\ ~r.players[player_idx].hand.is_riichi
       /\ r.players[player_idx].score >= 1000
       /\ remaining(r.wall) >= r.num_players
    THEN get_riichi_candidates(r, player_idx)
    ELSE << >>

get_draw_actions(r_arg, player_idx) ==
  One({
    [NewAvailable(player_idx) EXCEPT
           !.can_tsumo = is_agari(closed_34),
           !.can_riichi = (riichi_tiles # << >>),
           !.riichi_candidates = riichi_tiles,
           !.can_ankan = AnkanGroups(hand, closed_34),
           !.can_shouminkan = IF ~hand.is_riichi
                              THEN ShouminkanTiles(hand.melds, hand.closed_tiles)
                              ELSE << >>,
           !.can_kita = (r.is_sanma /\ TilesOfKind(hand.closed_tiles, 30) # << >>),
           !.can_kyuushu = /\ r.first_draw[player_idx]
                           /\ r.turn_count < r.num_players
                           /\ Cardinality({i \in YAOCHU_INDICES : closed_34[i] > 0}) >= 9,
           !.can_discard = IF hand.is_riichi
                           THEN (IF hand.draw_tile # NoTile THEN <<hand.draw_tile>>
                                 ELSE << >>)
                           ELSE hand.closed_tiles]
    : r \in {r_arg}, hand \in {r_arg.players[player_idx].hand},
      closed_34 \in {to_34_array(r_arg.players[player_idx].hand)},
      riichi_tiles \in {riichi_tiles_of(r_arg, player_idx)}})

FirstTileOfKind(closed, k) == TilesOfKind(closed, k)[1]

check_chi(hand, discard_tile, from_player) ==
    IF index34(discard_tile) >= 27 THEN << >>
    ELSE
      LET idx == index34(discard_tile)
          suit_start == (idx \div 9) * 9
          num == idx - suit_start
          T(k) == FirstTileOfKind(hand.closed_tiles, k)
      IN  One({
          (IF num <= 6 /\ closed_34[idx + 1] >= 1 /\ closed_34[idx + 2] >= 1
           THEN <<Meld("chi", <<discard_tile, T(idx + 1), T(idx + 2)>>,
                       discard_tile, from_player)>>
           ELSE << >>)
          \o
          (IF num >= 1 /\ num <= 7 /\ closed_34[idx - 1] >= 1 /\ closed_34[idx + 1] >= 1
           THEN <<Meld("chi", <<T(idx - 1), discard_tile, T(idx + 1)>>,
                       discard_tile, from_player)>>
           ELSE << >>)
          \o
          (IF num >= 2 /\ closed_34[idx - 2] >= 1 /\ closed_34[idx - 1] >= 1
           THEN <<Meld("chi", <<T(idx - 2), T(idx - 1), discard_tile>>,
                       discard_tile, from_player)>>
           ELSE << >>)
          : closed_34 \in {to_34_array(hand)}})

\* the furiten test of get_response_actions: ron is allowed
ron_allowed(r, player_idx) ==
    \E waiting \in {get_hand_waiting_tiles(r.players[player_idx].hand)} :
       LET discard_furiten == is_discard_furiten(r.players[player_idx].hand)
           temp_f == \E w \in waiting : w \in r.temp_furiten[player_idx]
           riichi_f == \E w \in waiting : w \in r.riichi_furiten[player_idx]
       IN  ~discard_furiten /\ ~temp_f /\ ~riichi_f

get_response_actions(r, player_idx, discard_tile, discard_player) ==
  One({
    LET tile_34 == index34(discard_tile)
        same == TilesOfKind(hand.closed_tiles, tile_34)
    IN  IF hand.is_riichi THEN [NewAvailable(player_idx) EXCEPT !.can_ron = can_ron]
        ELSE [NewAvailable(player_idx) EXCEPT
                !.can_ron = can_ron,
                !.can_pon = IF closed_34[tile_34] >= 2
                            THEN <<Meld("pon", SubSeq(same, 1, 2) \o <<discard_tile>>,
                                        discard_tile, discard_player)>>
                            ELSE << >>,
                !.can_daiminkan = IF closed_34[tile_34] >= 3
                                  THEN <<Meld("daiminkan",
                                              SubSeq(same, 1, 3) \o <<discard_tile>>,
                                              discard_tile, discard_player)>>
                                  ELSE << >>,
                !.can_chi = IF ~r.is_sanma
                               /\ discard_player = (player_idx - 1) % r.num_players
                            THEN check_chi(hand, discard_tile, discard_player)
                            ELSE << >>]
    : hand \in {r.players[player_idx].hand},
      closed_34 \in {to_34_array(r.players[player_idx].hand)},
      can_ron \in {/\ is_agari([to_34_array(r.players[player_idx].hand)
                                   EXCEPT ![index34(discard_tile)] = @ + 1])
                   /\ ron_allowed(r, player_idx)}})

\* every seat's ippatsu flag cleared
cancel_ippatsu(r) ==
    [r EXCEPT !.players = [i \in Seats(r) |->
                              [r.players[i] EXCEPT !.hand.is_ippatsu = FALSE]]]

process_draw(r, player_idx) ==
    IF is_empty(r.wall) THEN r
    ELSE [r EXCEPT !.is_haitei = (remaining(r.wall) = 1),
                   !.wall.live_wall = Tail(@),
                   !.players[player_idx].hand = HandDraw(@, Head(r.wall.live_wall))]

process_rinshan_draw(r, player_idx) ==
    IF rinshan_tile(r.wall) = NoTile THEN r
    ELSE [r EXCEPT !.wall = draw_rinshan(@),
                   !.players[player_idx].hand = HandDraw(@, rinshan_tile(r.wall)),
                   !.is_rinshan = TRUE]

process_discard(r, player_idx, tile) ==
    LET is_tsumogiri == (tile = r.players[player_idx].hand.draw_tile)
        r1 == [r EXCEPT !.players[player_idx].hand = HandDiscard(@, tile, is_tsumogiri),
                        !.last_discard = tile,
                        !.last_discard_player = player_idx,
                        !.is_rinshan = FALSE]
        r2 == cancel_ippatsu(r1)
    IN  IF r.first_draw[player_idx]
        THEN [r2 EXCEPT !.first_draw[player_idx] = FALSE,
                        !.first_discard_winds = Append(@, index34(tile))]
        ELSE r2

\* the caller's own tiles of the meld leave the closed tiles
RECURSIVE OwnMeldTiles(_, _)
OwnMeldTiles(tiles, called_tile) ==
    IF tiles = << >> THEN << >>
    ELSE (IF Head(tiles) # called_tile THEN <<Head(tiles)>> ELSE << >>)
         \o OwnMeldTiles(Tail(tiles), called_tile)

mark_called(r) ==
    LET dp == r.last_discard_player IN
    IF dp >= 0 /\ r.players[dp].hand.discard_called # << >>
    THEN [r EXCEPT !.players[dp].hand.discard_called =
                       [@ EXCEPT ![Len(@)] = TRUE]]
    ELSE r

\* process_call(action): action = [player, meld]
process_call_keeps_tiles(r, action) ==
    [cancel_ippatsu(r) EXCEPT !.players[action.player].hand = add_meld(@, action.meld)]

process_call(r, action) ==
    LET player_idx == action.player
        meld == action.meld
        r1 == cancel_ippatsu(r)
        r2 == [r1 EXCEPT !.players[player_idx].hand =
                   add_meld([@ EXCEPT !.closed_tiles =
                                RemoveEach(@, OwnMeldTiles(meld.tiles, meld.called_tile))],
                            meld)]
        r3 == mark_called(r2)
    IN  IF meld.meld_type = "daiminkan"
        THEN [r3 EXCEPT !.kan_count_total = @ + 1, !.wall = reveal_new_dora(@)]
        ELSE r3

process_ankan(r, player_idx, tiles) ==
    cancel_ippatsu(
        [r EXCEPT !.players[player_idx].hand =
                      add_meld([@ EXCEPT !.closed_tiles = RemoveEach(@, tiles)],
                               Meld("ankan", tiles, NoTile, NoPlayer)),
                  !.kan_count_total = @ + 1,
                  !.wall = reveal_new_dora(@)])

\* the first pon of the tile's kind becomes a shouminkan
upgrade_pon(melds, tile) ==
    LET hits == {i \in DOMAIN melds : /\ melds[i].meld_type = "pon"
                                      /\ tile_index34(melds[i]) = index34(tile)}
    IN  IF hits = {} THEN melds
        ELSE LET i == CHOOSE j \in hits : \A k \in hits : j <= k
             IN  [melds EXCEPT ![i] = Meld("shouminkan", Append(melds[i].tiles, tile),
                                           melds[i].called_tile, melds[i].from_player)]

process_shouminkan(r, player_idx, tile) ==
    cancel_ippatsu(
        [r EXCEPT !.players[player_idx].hand =
                      [@ EXCEPT !.closed_tiles = RemoveFirst(@, tile),
                                !.melds = upgrade_pon(@, tile)],
                  !.kan_count_total = @ + 1,
                  !.wall = reveal_new_dora(@)])

process_riichi(r, player_idx, discard_tile) ==
    LET is_double == /\ r.first_draw[player_idx]
                     /\ \A i \in Seats(r) : r.players[i].hand.melds = << >>
        r1 == [r EXCEPT
                 !.players[player_idx].hand =
                     [@ EXCEPT !.is_riichi = TRUE,
                               !.is_ippatsu = TRUE,
                               !.is_double_riichi = (@ \/ is_double),
                               !.riichi_discard_index = Len(r.players[player_idx].hand.discard_pool)],
                 !.riichi_declared_count = @ + 1,
                 !.players[player_idx].score = @ - 1000,
                 !.riichi_sticks = @ + 1]
        r2 == process_discard(r1, player_idx, discard_tile)
    IN  [r2 EXCEPT !.players[player_idx].hand.is_ippatsu = TRUE]

\* the score calculator's answer to a self-draw win of the seat
tsumo_score(r, player_idx) ==
    LET player == r.players[player_idx]
        hand == player.hand
    IN  calculate_score(hand, hand.draw_tile,
            [ScoreOpts EXCEPT
               !.is_tsumo = TRUE,
               !.seat_wind_34 = wind_index34(player.seat_wind),
               !.round_wind_34 = wind_index34(r.round_wind),
               !.is_dealer = player.is_dealer,
               !.dora_tiles_34 = get_dora_tiles_34(r.wall),
               !.uradora_tiles_34 = get_uradora_tiles_34(r.wall),
               !.honba = r.honba,
               !.is_riichi = hand.is_riichi,
               !.is_double_riichi = hand.is_double_riichi,
               !.is_ippatsu = hand.is_ippatsu,
               !.is_haitei = r.is_haitei,
               !.is_rinshan = r.is_rinshan,
               !.is_tenhou = (player.is_dealer /\ r.turn_count = 0),
               !.is_chiihou = (~player.is_dealer /\ r.first_draw[player_idx]),
               !.is_sanma = r.is_sanma])

\* variant: the table's riichi sticks are left out of the winner's gain
tsumo_changes_without_sticks(r, player_idx, result) ==
    LET pays(i) == IF i = player_idx \/ i >= r.num_players THEN 0
                   ELSE IF r.players[player_idx].is_dealer THEN result.non_dealer_payment
                   ELSE IF r.players[i].is_dealer THEN result.dealer_payment
                   ELSE result.non_dealer_payment
    IN  [i \in 0..3 |->
           IF i = player_idx
           THEN SumOver(Seats(r), [j \in Seats(r) |-> pays(j)])
           ELSE 0 - pays(i)]

tsumo_changes(r, player_idx, result) ==
    LET pays(i) == IF i = player_idx \/ i >= r.num_players THEN 0
                   ELSE IF r.players[player_idx].is_dealer THEN result.non_dealer_payment
                   ELSE IF r.players[i].is_dealer THEN result.dealer_payment
                   ELSE result.non_dealer_payment
    IN  [i \in 0..3 |->
           IF i = player_idx
           THEN SumOver(Seats(r), [j \in Seats(r) |-> pays(j)]) + r.riichi_sticks * 1000
           ELSE 0 - pays(i)]

process_tsumo(r, player_idx) ==
  One({
    IF result.is_none THEN r
    ELSE [r EXCEPT
            !.result = [NewRoundResult EXCEPT
                          !.winners = <<player_idx>>,
                          !.score_results = << <<player_idx, result>> >>,
                          !.score_changes = tsumo_changes(r, player_idx, result),
                          !.riichi_sticks_winner = player_idx,
                          !.dealer_continues = r.players[player_idx].is_dealer],
            !.is_finished = TRUE]
    : result \in {tsumo_score(r, player_idx)}})

process_ron(r, winner_idx, loser_idx, win_tile) ==
    LET player == r.players[winner_idx]
        hand == player.hand
        test_hand == [hand EXCEPT !.closed_tiles = Append(@, win_tile)]
    IN  calculate_score(test_hand, win_tile,
            [ScoreOpts EXCEPT
               !.is_tsumo = FALSE,
               !.seat_wind_34 = wind_index34(player.seat_wind),
               !.round_wind_34 = wind_index34(r.round_wind),
               !.is_dealer = player.is_dealer,
               !.dora_tiles_34 = get_dora_tiles_34(r.wall),
               !.uradora_tiles_34 = get_uradora_tiles_34(r.wall),
               !.honba = r.honba,
               !.is_riichi = hand.is_riichi,
               !.is_double_riichi = hand.is_double_riichi,
               !.is_ippatsu = hand.is_ippatsu,
               !.is_houtei = (remaining(r.wall) = 0),
               !.is_sanma = r.is_sanma])

\* variant: the first winner of the list takes the sticks
closest_player_first(r, from_player, candidates) == candidates[1]

closest_player(r, from_player, candidates) ==
    LET offs == {o \in 1..(r.num_players - 1) :
                   \E k \in DOMAIN candidates :
                      candidates[k] = (from_player + o) % r.num_players}
    IN  IF offs = {} THEN candidates[1]
        ELSE (from_player + (CHOOSE o \in offs : \A q \in offs : o <= q)) % r.num_players

\* variant: the loser is debited the first winner's payment only
total_from_loser_first(winners) == winners[1][2].ron_payment

\* lines 563-577: what the loser pays, winners a sequence of <<seat, result>>
total_from_loser(winners) ==
    SumSeq([k \in DOMAIN winners |-> winners[k][2].ron_payment])

\* winners: a sequence of <<seat, score result>>
process_ron_result(r, winners, loser_idx) ==
    LET seats == [k \in DOMAIN winners |-> winners[k][1]]
        pay(k) == winners[k][2].ron_payment
        closest == closest_player(r, loser_idx, seats)
        won(i) == SumSeq([k \in DOMAIN winners |-> IF seats[k] = i THEN pay(k) ELSE 0])
    IN  [r EXCEPT
           !.result = [NewRoundResult EXCEPT
                         !.loser = loser_idx,
                         !.winners = seats,
                         !.score_results = winners,
                         !.score_changes =
                             [i \in 0..3 |->
                                won(i)
                                - (IF i = loser_idx THEN total_from_loser(winners) ELSE 0)
                                + (IF i = closest THEN r.riichi_sticks * 1000 ELSE 0)],
                         !.riichi_sticks_winner = closest,
                         !.dealer_continues =
                             \E k \in DOMAIN seats : r.players[seats[k]].is_dealer],
           !.is_finished = TRUE]

\* check_abortive_draw: the draw type, "" for None
check_abortive_draw(r) ==
    LET w == r.first_discard_winds
        kan_players == {i \in Seats(r) :
                          \E k \in DOMAIN r.players[i].hand.melds :
                             is_kan(r.players[i].hand.melds[k])}
    IN  IF /\ Len(w) = r.num_players
           /\ \A k \in DOMAIN w : w[k] = w[1]
           /\ 27 <= w[1] /\ w[1] <= 30
        THEN "4wind"
        ELSE IF r.kan_count_total >= 4 /\ Cardinality(kan_players) >= 2 THEN "4kan"
        ELSE IF r.riichi_declared_count >= r.num_players THEN "4riichi"
        ELSE ""

SeatsInOrder(S) == SortedSeq(S)

process_exhaustive_draw_flat_share(r) ==
  One({
    LET noten == Seats(r) \ tenpai
        pays == 0 < Cardinality(tenpai) /\ Cardinality(tenpai) < r.num_players
        dealers == {i \in Seats(r) : r.players[i].is_dealer}
        dealer_idx == IF dealers = {} THEN 0
                      ELSE CHOOSE i \in dealers : \A j \in dealers : i <= j
    IN  [r EXCEPT
           !.result = [NewRoundResult EXCEPT
                         !.is_draw = TRUE,
                         !.draw_type = "exhaustive",
                         !.tenpai_players = SeatsInOrder(tenpai),
                         !.score_changes =
                             [i \in 0..3 |->
                                IF ~pays THEN 0
                                ELSE IF i \in noten THEN 0 - 1000
                                ELSE IF i \in tenpai THEN 3000 \div Cardinality(tenpai)
                                ELSE 0],
                         !.dealer_continues = (dealer_idx \in tenpai)],
           !.is_finished = TRUE]
    : tenpai \in {{i \in Seats(r) :
                     get_waiting_tiles(to_34_array(r.players[i].hand)) # {}}}})

process_exhaustive_draw(r) ==
  One({
    LET noten == Seats(r) \ tenpai
        pays == 0 < Cardinality(tenpai) /\ Cardinality(tenpai) < r.num_players
        dealers == {i \in Seats(r) : r.players[i].is_dealer}
        dealer_idx == IF dealers = {} THEN 0
                      ELSE CHOOSE i \in dealers : \A j \in dealers : i <= j
    IN  [r EXCEPT
           !.result = [NewRoundResult EXCEPT
                         !.is_draw = TRUE,
                         !.draw_type = "exhaustive",
                         !.tenpai_players = SeatsInOrder(tenpai),
                         !.score_changes =
                             [i \in 0..3 |->
                                IF ~pays THEN 0
                                ELSE IF i \in noten THEN 0 - (3000 \div Cardinality(noten))
                                ELSE IF i \in tenpai THEN 3000 \div Cardinality(tenpai)
                                ELSE 0],
                         !.dealer_continues = (dealer_idx \in tenpai)],
           !.is_finished = TRUE]
    : tenpai \in {{i \in Seats(r) :
                     get_waiting_tiles(to_34_array(r.players[i].hand)) # {}}}})

process_abortive_draw_dealer_rotates(r, draw_type) ==
    [r EXCEPT !.result = [NewRoundResult EXCEPT !.is_draw = TRUE,
                                                !.draw_type = draw_type,
                                                !.dealer_continues = FALSE],
              !.is_finished = TRUE]

process_abortive_draw(r, draw_type) ==
    [r EXCEPT !.result = [NewRoundResult EXCEPT !.is_draw = TRUE,
                                                !.draw_type = draw_type,
                                                !.dealer_continues = TRUE],
              !.is_finished = TRUE]

update_temp_furiten(r, discard_player, discard_tile) ==
  One({
    LET tile_34 == index34(discard_tile)
    IN  [r EXCEPT
           !.temp_furiten = [i \in Seats(r) |-> IF i \in hit THEN @[i] \cup {tile_34}
                                                ELSE @[i]],
           !.riichi_furiten = [i \in Seats(r) |->
                                 IF i \in hit /\ r.players[i].hand.is_riichi
                                 THEN @[i] \cup {tile_34} ELSE @[i]]]
    : hit \in {{i \in Seats(r) :
                  /\ i # discard_player
                  /\ index34(discard_tile) \in get_hand_waiting_tiles(r.players[i].hand)}}})

clear_temp_furiten_always(r, player_idx) ==
    [r EXCEPT !.temp_furiten[player_idx] = {}]

clear_temp_furiten(r, player_idx) ==
    IF ~r.players[player_idx].hand.is_riichi
    THEN [r EXCEPT !.temp_furiten[player_idx] = {}]
    ELSE r

next_player(r, cur) == (cur + 1) % r.num_players

process_kita(r, player_idx) ==
    LET north_tile == FirstTileOfKind(r.players[player_idx].hand.closed_tiles, 30) IN
    [r EXCEPT !.players[player_idx].hand.closed_tiles = RemoveFirst(@, north_tile),
              !.players[player_idx].kita_tiles = Append(@, north_tile)]

\* ------------------------------------------------------------ run_round
\* the callback answers with at most this many of the last offered tiles
MaxDiscardChoices == 1
\* live-wall tiles left after the deal
MaxLive == 9
\* answers that are not among the offered actions, per round
MaxIllegal == 1

NoAction == [action_type |-> "none"]

\* ------------------------------------------------------------------ game
\* GameState(config, player_names, event_bus) as the round's setup sees it:
\* the configuration, the progression fields, the number of recorded results.
\* The players are the round's players (the same objects).
NewGame(num_players, is_tonpuu, target_score, round_wind, round_number, honba, riichi_sticks) ==
    [num_players |-> num_players, is_tonpuu |-> is_tonpuu, target_score |-> target_score,
     round_wind |-> round_wind, round_number |-> round_number, honba |-> honba,
     riichi_sticks |-> riichi_sticks, round_results |-> 0, is_finished |-> FALSE]

dealer_seat(g) == g.round_number % g.num_players

top_score(g, players) ==
    CHOOSE v \in {players[i].score : i \in 0..(g.num_players - 1)} :
       \A i \in 0..(g.num_players - 1) : players[i].score <= v

\* GameState._advance_dealer
advance_dealer(g_arg, players) ==
  One({
    IF g.round_number >= g.num_players
    THEN IF g.round_wind = 0
         THEN IF g.is_tonpuu
              THEN IF top_score(g, players) >= g.target_score
                   THEN [g EXCEPT !.round_number = 0, !.is_finished = TRUE]
                   ELSE [g EXCEPT !.round_number = 0, !.round_wind = 1]
              ELSE [g EXCEPT !.round_number = 0, !.round_wind = 1]
         ELSE IF g.round_wind = 1
              THEN [g EXCEPT !.round_number = 0, !.is_finished = TRUE]
              ELSE [g EXCEPT !.round_number = 0]
    ELSE g
    : g \in {[g_arg EXCEPT !.round_number = @ + 1]}})

\* GameState._check_game_end
check_game_end(g, players) ==
    \/ g.is_finished
    \/ g.round_wind = 1 /\ g.round_number >= g.num_players
    \/ /\ g.round_wind = 1
       /\ g.round_number = g.num_players - 1
       /\ top_score(g, players) >= g.target_score

\* GameState.advance_round: <<the game, the players>> after the result
advance_round(g_arg, players_arg, result) ==
  One({
    IF \E i \in DOMAIN players : players[i].score < 0
    THEN <<[g EXCEPT !.is_finished = TRUE], players>>
    ELSE One({<<[g2 EXCEPT !.is_finished = check_game_end(g2, players)], players>>
              : g2 \in {IF result.dealer_continues
                        THEN [g EXCEPT !.honba = @ + 1]
                        ELSE advance_dealer([g EXCEPT !.honba = IF ~result.is_draw THEN 0
                                                                ELSE @ + 1],
                                            players)}})
    : g \in {[g_arg EXCEPT !.round_results = @ + 1,
                           !.riichi_sticks = IF result.riichi_sticks_winner # NoPlayer
                                             THEN 0 ELSE @]},
      players \in {[i \in DOMAIN players_arg |->
                      [players_arg[i] EXCEPT !.score = @ + result.score_changes[i]]]}})

VARIABLES
    rs,           \* the RoundState
    pc,           \* the position of run_round
    current,      \* run_round's current
    available,    \* the actions offered at the position
    resps,        \* per seat, the response actions offered on the tile
    call_action,  \* run_round's call_action
    kan_tile,     \* the tile of a declared shouminkan
    h,            \* history of the window: what was declared and executed
    game,         \* the GameState that set the round up
    calc          \* a histogram and what shanten and is_agari return for it

vars == <<rs, pc, current, available, resps, call_action, kan_tile, h, game, calc>>

LastN(s, n) == IF Len(s) <= n THEN s ELSE SubSeq(s, Len(s) - n + 1, Len(s))

Choices(s) == SeqToSet(LastN(s, MaxDiscardChoices))

\* seats that could win on the tile on the state before the furiten update:
\* a complete hand, a score result, and no furiten of any kind
Eligible(r, discard_player, tile) ==
    {i \in Seats(r) \ {discard_player} :
        /\ is_agari([to_34_array(r.players[i].hand) EXCEPT ![index34(tile)] = @ + 1])
        /\ ron_allowed(r, i)
        /\ ~process_ron(r, i, discard_player, tile).is_none}

NewHistory ==
    [illegal |-> 0, noyaku |-> FALSE, eligible |-> {}, declared |-> {},
     executed |-> {}, riichi_by |-> NoPlayer, score_before |-> 0, sticks_before |-> 0,
     ron_seats |-> {}, offered_ron |-> {}, window |-> "", tsumo_by |-> NoPlayer,
     forced |-> {}, missed |-> {}, missed_now |-> {}]

\* seats other than the discarder that the tile would complete: the kind is one
\* the seat holds fewer than four of and makes its closed tiles a complete hand
Passed(r, discard_player, tile) ==
    {i \in Seats(r) \ {discard_player} :
        \E tiles_34 \in {to_34_array(r.players[i].hand)} :
           /\ tiles_34[index34(tile)] < 4
           /\ is_agari([tiles_34 EXCEPT ![index34(tile)] = @ + 1])}

Responses(r, tile, from_player) ==
    [i \in Seats(r) |-> IF i = from_player THEN NewAvailable(i)
                        ELSE get_response_actions(r, i, tile, from_player)]

\* lines 826-839: after the discard, the furiten update opens the claim window
AfterDiscard(r_arg, hh) ==
    \E r \in {r_arg} :
       IF r.last_discard = NoTile
       THEN /\ rs' = r
            /\ current' = next_player(r, current)
            /\ pc' = "loop"
            /\ h' = hh
            /\ UNCHANGED <<available, resps, call_action, kan_tile>>
       ELSE \E r1 \in {update_temp_furiten(r, r.last_discard_player, r.last_discard)} :
            \E rr \in {Responses(r1, r.last_discard, r.last_discard_player)} :
               /\ rs' = r1
               /\ resps' = rr
               /\ call_action' = NoAction
               /\ pc' = "claim_ron"
               /\ h' = [hh EXCEPT
                          !.eligible = Eligible(r, r.last_discard_player, r.last_discard),
                          !.declared = {}, !.executed = {}, !.ron_seats = {},
                          !.offered_ron = {i \in Seats(r) : rr[i].can_ron},
                          !.window = "discard",
                          !.missed = hh.missed \cup hh.missed_now,
                          !.missed_now = Passed(r, r.last_discard_player, r.last_discard)]
               /\ UNCHANGED <<current, available, kan_tile>>

\* the replacement draw after a kan or kita and what follows it
AfterKan(r_arg, with_abort_check, hh) ==
    \E r \in {r_arg} :
       IF rinshan_tile(r.wall) = NoTile
       THEN /\ rs' = process_exhaustive_draw(r)
            /\ pc' = "done"
            /\ h' = hh
            /\ UNCHANGED <<current, available, resps, call_action, kan_tile>>
       ELSE \E r1 \in {process_rinshan_draw(r, current)} :
            \E abort \in {IF with_abort_check THEN check_abortive_draw(r1) ELSE ""} :
               IF abort # ""
               THEN /\ rs' = process_abortive_draw(r1, abort)
                    /\ pc' = "done"
                    /\ h' = hh
                    /\ UNCHANGED <<current, available, resps, call_action, kan_tile>>
               ELSE /\ rs' = r1
                    /\ available' = get_draw_actions(r1, current)
                    /\ pc' = "decide"
                    /\ h' = hh
                    /\ UNCHANGED <<current, resps, call_action, kan_tile>>

\* line 720
Deal ==
    /\ pc = "start"
    /\ UNCHANGED <<game, calc>>
    /\ rs' = deal_tiles(rs)
    /\ current' = rs.current_player
    /\ pc' = "loop"
    /\ UNCHANGED <<available, resps, call_action, kan_tile, h>>

\* lines 726-744, the wall holds a tile
TurnDraw ==
    /\ pc = "loop"
    /\ UNCHANGED <<game, calc>>
    /\ ~is_empty(rs.wall)
    /\ \E r1 \in {clear_temp_furiten(process_draw(rs, current), current)} :
       \E r2 \in {[r1 EXCEPT !.turn_count = @ + 1]} :
          /\ rs' = r2
          /\ available' = get_draw_actions(r2, current)
    /\ pc' = "decide"
    /\ h' = [h EXCEPT !.missed = (@ \cup h.missed_now) \ {current},
                      !.missed_now = {}]
    /\ UNCHANGED <<current, resps, call_action, kan_tile>>

\* lines 728-730
TurnExhausted ==
    /\ pc = "loop"
    /\ UNCHANGED <<game, calc>>
    /\ is_empty(rs.wall)
    /\ rs' = process_exhaustive_draw(rs)
    /\ pc' = "done"
    /\ UNCHANGED <<current, available, resps, call_action, kan_tile, h>>

\* lines 746-748; the callback may answer TSUMO unasked
DecideTsumo ==
    /\ pc = "decide"
    /\ UNCHANGED <<game, calc>>
    /\ available.can_tsumo \/ h.illegal < MaxIllegal
    /\ \E r1 \in {process_tsumo(rs, current)} :
          /\ rs' = r1
          /\ h' = [h EXCEPT !.illegal = IF available.can_tsumo THEN @ ELSE @ + 1,
                            !.noyaku = (available.can_tsumo /\ r1.result.is_none),
                            !.tsumo_by = current]
    /\ pc' = "done"
    /\ UNCHANGED <<current, available, resps, call_action, kan_tile>>

\* lines 750-752
DecideKyuushu ==
    /\ pc = "decide"
    /\ UNCHANGED <<game, calc>>
    /\ available.can_kyuushu
    /\ rs' = process_abortive_draw(rs, "kyuushu")
    /\ pc' = "done"
    /\ UNCHANGED <<current, available, resps, call_action, kan_tile, h>>

\* lines 754-771
DecideAnkan ==
    /\ pc = "decide"
    /\ UNCHANGED <<game, calc>>
    /\ \E g \in DOMAIN available.can_ankan :
          AfterKan(process_ankan(rs, current, available.can_ankan[g]), TRUE, h)

\* lines 773-780: the declared tile is shown to the other seats first
DecideShouminkan ==
    /\ pc = "decide"
    /\ UNCHANGED <<game, calc>>
    /\ \E k \in DOMAIN available.can_shouminkan :
          \E tile \in {available.can_shouminkan[k]} :
          \E rr \in {Responses(rs, tile, current)} :
              /\ kan_tile' = tile
              /\ resps' = rr
              /\ h' = [h EXCEPT !.eligible = {}, !.declared = {}, !.executed = {},
                                !.ron_seats = {},
                                !.offered_ron = {i \in Seats(rs) : rr[i].can_ron},
                                !.window = "kan"]
    /\ pc' = "chankan"
    /\ UNCHANGED <<rs, current, available, call_action>>

\* lines 805-812
DecideKita ==
    /\ pc = "decide"
    /\ UNCHANGED <<game, calc>>
    /\ available.can_kita
    /\ AfterKan(process_kita(rs, current), FALSE, h)

\* lines 814-816
DecideRiichi ==
    /\ pc = "decide"
    /\ UNCHANGED <<game, calc>>
    /\ available.can_riichi
    /\ \E tile \in Choices(available.riichi_candidates) :
          AfterDiscard(process_riichi(rs, current, tile),
                       [h EXCEPT !.riichi_by = current,
                                 !.score_before = rs.players[current].score,
                                 !.sticks_before = rs.riichi_sticks])

\* lines 818-819
DecideDiscard ==
    /\ pc = "decide"
    /\ UNCHANGED <<game, calc>>
    /\ \E tile \in Choices(available.can_discard) :
          AfterDiscard(process_discard(rs, current, tile),
                       [h EXCEPT !.riichi_by = NoPlayer])

\* lines 821-824: any other answer, here SKIP
DecideOther ==
    /\ pc = "decide"
    /\ UNCHANGED <<game, calc>>
    /\ h.illegal < MaxIllegal
    /\ LET draw_tile == rs.players[current].hand.draw_tile IN
       AfterDiscard(IF draw_tile # NoTile THEN process_discard(rs, current, draw_tile)
                    ELSE rs,
                    [h EXCEPT !.illegal = @ + 1, !.riichi_by = NoPlayer])

\* the answers RON of the seats S, in the order the loop visits the seats:
\* <<seat, what process_ron returns>>
RonAnswers(r, order, S, loser, tile) ==
    LET answers_ron(i) == i \in S IN
    One({[k \in DOMAIN seats |-> <<seats[k], process_ron(r, seats[k], loser, tile)>>]
           \o << >>
         : seats \in {SelectSeq(order, answers_ron)}})

\* the answers the score calculator accepts
RonActions(answers) ==
    LET accepted(a) == ~a[2].is_none IN SelectSeq(answers, accepted)

\* an answer RON the score calculator gives no result for
NoYakuRon(answers) == \E k \in DOMAIN answers : answers[k][2].is_none

\* range(1, num_players) offsets from the discarder
OffsetOrder(r, from_player) ==
    [o \in 1..(r.num_players - 1) |-> (from_player + o) % r.num_players]

\* range(num_players) without the declarer
IndexOrder(r, declarer) == SortedSeq(Seats(r) \ {declarer})

\* lines 852-858 and 932-937
triple_ron(r, ron_actions) == Len(ron_actions) >= 3 /\ ~r.is_sanma

RonOutcome(r, ron_actions, loser) ==
    IF triple_ron(r, ron_actions) THEN process_abortive_draw(r, "triple_ron")
    ELSE process_ron_result(r, ron_actions, loser)

\* lines 775-803
ChankanAfterKan ==
    /\ pc = "chankan"
    /\ UNCHANGED <<game, calc>>
    /\ \E S \in SUBSET {i \in Seats(rs) \ {current} : resps[i].can_ron} :
       \E answers \in {RonAnswers(rs, IndexOrder(rs, current), S, current, kan_tile)} :
       \E chankan_winners \in {RonActions(answers)} :
       \E hh \in {[h EXCEPT !.declared = IF S # {} THEN {"ron"} ELSE {},
                            !.ron_seats = S,
                            !.noyaku = @ \/ NoYakuRon(answers)]} :
          IF chankan_winners # << >>
          THEN /\ rs' = process_ron_result(process_shouminkan(rs, current, kan_tile),
                                             chankan_winners, current)
               /\ pc' = "done"
               /\ h' = [hh EXCEPT !.executed = {"ron"}]
               /\ UNCHANGED <<current, available, resps, call_action, kan_tile>>
          ELSE AfterKan(process_shouminkan(rs, current, kan_tile), TRUE, hh)

Chankan ==
    /\ pc = "chankan"
    /\ UNCHANGED <<game, calc>>
    /\ \E S \in SUBSET {i \in Seats(rs) \ {current} : resps[i].can_ron} :
       \E answers \in {RonAnswers(rs, IndexOrder(rs, current), S, current, kan_tile)} :
       \E chankan_winners \in {RonActions(answers)} :
       \E hh \in {[h EXCEPT !.declared = IF S # {} THEN {"ron"} ELSE {},
                            !.ron_seats = S,
                            !.noyaku = @ \/ NoYakuRon(answers)]} :
          IF chankan_winners # << >>
          THEN /\ rs' = process_ron_result(rs, chankan_winners, current)
               /\ pc' = "done"
               /\ h' = [hh EXCEPT !.executed = {"ron"}]
               /\ UNCHANGED <<current, available, resps, call_action, kan_tile>>
          ELSE AfterKan(process_shouminkan(rs, current, kan_tile), TRUE, hh)

\* lines 841-858
ClaimRon ==
    /\ pc = "claim_ron"
    /\ UNCHANGED <<game, calc>>
    /\ \E S \in SUBSET {i \in Seats(rs) \ {rs.last_discard_player} : resps[i].can_ron} :
       \E answers \in {RonAnswers(rs, OffsetOrder(rs, rs.last_discard_player), S,
                                  rs.last_discard_player, rs.last_discard)} :
       \E ron_actions \in {RonActions(answers)} :
       \E hh \in {[h EXCEPT !.declared = IF S # {} THEN {"ron"} ELSE {},
                            !.ron_seats = S,
                            !.noyaku = @ \/ NoYakuRon(answers)]} :
          IF ron_actions # << >>
          THEN /\ rs' = RonOutcome(rs, ron_actions, rs.last_discard_player)
               /\ pc' = "done"
               /\ h' = [hh EXCEPT !.executed = {"ron"}]
          ELSE /\ pc' = "claim_pon"
               /\ h' = hh
               /\ UNCHANGED rs
    /\ UNCHANGED <<current, available, resps, call_action, kan_tile>>

\* the seats asked in the pon/kan loop, in order
Callers(rr, order) ==
    LET may_call(i) == rr[i].can_pon # << >> \/ rr[i].can_daiminkan # << >>
    IN  SelectSeq(order, may_call)

\* lines 860-869: the first seat to answer PON or DAIMINKAN ends the loop
ClaimPon ==
    /\ pc = "claim_pon"
    /\ UNCHANGED <<game, calc>>
    /\ \/ /\ call_action' = NoAction
          /\ UNCHANGED h
       \/ \E i \in SeqToSet(Callers(resps, OffsetOrder(rs, rs.last_discard_player))) :
          \E meld \in SeqToSet(resps[i].can_pon) \cup SeqToSet(resps[i].can_daiminkan) :
             /\ call_action' = [action_type |-> meld.meld_type, player |-> i,
                                meld |-> meld]
             /\ h' = [h EXCEPT !.declared = @ \cup {meld.meld_type}]
    /\ pc' = "claim_chi"
    /\ UNCHANGED <<rs, current, available, resps, kan_tile>>

\* variant: the next seat is asked for chi whatever the pon/kan loop gave
chi_window_always_open(action) == TRUE

\* line 872
chi_window_open(action) == action = NoAction

\* lines 871-878
ClaimChi ==
    /\ pc = "claim_chi"
    /\ UNCHANGED <<game, calc>>
    /\ LET next_p == next_player(rs, rs.last_discard_player) IN
       \/ /\ UNCHANGED <<call_action, h>>
       \/ /\ chi_window_open(call_action)
          /\ \E meld \in SeqToSet(resps[next_p].can_chi) :
                /\ call_action' = [action_type |-> "chi", player |-> next_p,
                                   meld |-> meld]
                /\ h' = [h EXCEPT !.declared = @ \cup {"chi"}]
    /\ pc' = "call"
    /\ UNCHANGED <<rs, current, available, resps, kan_tile>>

\* lines 940-946
NoCall ==
    /\ pc = "call"
    /\ UNCHANGED <<game, calc>>
    /\ call_action = NoAction
    /\ LET abort == check_abortive_draw(rs) IN
       IF abort # ""
       THEN /\ rs' = process_abortive_draw(rs, abort)
            /\ pc' = "done"
            /\ UNCHANGED current
       ELSE /\ current' = next_player(rs, current)
            /\ pc' = "loop"
            /\ UNCHANGED rs
    /\ UNCHANGED <<available, resps, call_action, kan_tile, h>>

\* lines 880-895
CallDaiminkan ==
    /\ pc = "call"
    /\ UNCHANGED <<game, calc>>
    /\ call_action # NoAction
    /\ call_action.action_type = "daiminkan"
    /\ \E r1 \in {process_call(rs, call_action)} :
           IF rinshan_tile(r1.wall) = NoTile
           THEN /\ rs' = process_exhaustive_draw(r1)
                /\ pc' = "done"
                /\ UNCHANGED available
           ELSE \E r2 \in {process_rinshan_draw(r1, call_action.player)} :
                \E abort \in {check_abortive_draw(r2)} :
                    IF abort # ""
                    THEN /\ rs' = process_abortive_draw(r2, abort)
                         /\ pc' = "done"
                         /\ UNCHANGED available
                    ELSE /\ rs' = r2
                         /\ available' = get_draw_actions(r2, call_action.player)
                         /\ pc' = "decide"
    /\ current' = call_action.player
    /\ h' = [h EXCEPT !.executed = @ \cup {"daiminkan"}]
    /\ UNCHANGED <<resps, call_action, kan_tile>>

\* lines 880-883 and 896-899
CallMeld ==
    /\ pc = "call"
    /\ UNCHANGED <<game, calc>>
    /\ call_action # NoAction
    /\ call_action.action_type \in {"pon", "chi"}
    /\ \E r1 \in {process_call(rs, call_action)} :
       /\ rs' = r1
       /\ available' = get_draw_actions(r1, call_action.player)
    /\ current' = call_action.player
    /\ pc' = "call_discard"
    /\ h' = [h EXCEPT !.executed = @ \cup {call_action.action_type}]
    /\ UNCHANGED <<resps, call_action, kan_tile>>

\* lines 900-919: the discard after chi or pon, then the furiten update and
\* the abort check
CallDiscardTail(r_arg, hh) ==
    \E r \in {r_arg} :
    \E discard_tile \in {r.last_discard}, discard_player \in {r.last_discard_player} :
    \E r1 \in {update_temp_furiten(r, discard_player, discard_tile)} :
    \E abort \in {check_abortive_draw(r1)} :
        /\ current' = next_player(r, current)
        /\ IF abort # ""
           THEN /\ rs' = process_abortive_draw(r1, abort)
                /\ pc' = "done"
                /\ h' = [hh EXCEPT !.eligible = {}, !.offered_ron = {},
                                   !.missed = hh.missed \cup hh.missed_now,
                                   !.missed_now = Passed(r, discard_player, discard_tile)]
                /\ UNCHANGED resps
           ELSE \E rr \in {Responses(r1, discard_tile, discard_player)} :
                /\ rs' = r1
                /\ resps' = rr
                /\ pc' = "call_ron"
                /\ h' = [hh EXCEPT
                           !.eligible = Eligible(r, discard_player, discard_tile),
                           !.declared = {}, !.executed = {}, !.ron_seats = {},
                           !.offered_ron = {i \in Seats(r) : rr[i].can_ron},
                           !.window = "call_discard",
                           !.missed = hh.missed \cup hh.missed_now,
                           !.missed_now = Passed(r, discard_player, discard_tile)]
        /\ UNCHANGED <<available, call_action, kan_tile>>

\* lines 900-901
CallDiscard ==
    /\ pc = "call_discard"
    /\ UNCHANGED <<game, calc>>
    /\ \E tile \in Choices(available.can_discard) :
          CallDiscardTail(process_discard(rs, current, tile),
                          [h EXCEPT !.riichi_by = NoPlayer])

\* lines 902-904: any other answer, offered or not
CallDiscardForced ==
    /\ pc = "call_discard"
    /\ UNCHANGED <<game, calc>>
    /\ \E answer \in {"tsumo", "shouminkan", "ankan", "skip"} :
          LET offered == \/ answer = "tsumo" /\ available.can_tsumo
                         \/ answer = "shouminkan" /\ available.can_shouminkan # << >>
                         \/ answer = "ankan" /\ available.can_ankan # << >>
          IN  /\ offered \/ h.illegal < MaxIllegal
              /\ CallDiscardTail(process_discard(rs, current, available.can_discard[1]),
                                 [h EXCEPT !.riichi_by = NoPlayer,
                                           !.illegal = IF offered THEN @ ELSE @ + 1,
                                           !.forced = @ \cup (IF offered THEN {answer}
                                                              ELSE {})])

\* lines 921-939
CallRon ==
    /\ pc = "call_ron"
    /\ UNCHANGED <<game, calc>>
    /\ \E S \in SUBSET {i \in Seats(rs) \ {rs.last_discard_player} : resps[i].can_ron} :
       \E answers \in {RonAnswers(rs, OffsetOrder(rs, rs.last_discard_player), S,
                                  rs.last_discard_player, rs.last_discard)} :
       \E new_ron_actions \in {RonActions(answers)} :
       \E hh \in {[h EXCEPT !.declared = IF S # {} THEN {"ron"} ELSE {},
                            !.ron_seats = S,
                            !.noyaku = @ \/ NoYakuRon(answers)]} :
          IF new_ron_actions # << >>
          THEN /\ rs' = RonOutcome(rs, new_ron_actions, rs.last_discard_player)
               /\ pc' = "done"
               /\ h' = [hh EXCEPT !.executed = {"ron"}]
          ELSE /\ pc' = "loop"
               /\ h' = hh
               /\ UNCHANGED rs
    /\ UNCHANGED <<current, available, resps, call_action, kan_tile>>

\* the rounds the model starts from: the wall as Wall.from_tiles takes it
\* (live wall in drawing order, dead wall), and what setup_round is given
Scenarios ==
    <<
      [live |-> <<124,  40,   0,   6, 125,  44,   1,  11, 126,  48,   4,  13, 100,
                   56,   5,  49, 104,  60,   9,  54,  72,  64,  10,  58,  76,   8,
                   53,  21,  80,  12,  57,  25,  20,  17,  61,  29,  24, 108,  96,
                   81,  28, 109,  97,  82, 116,  89, 105,  93, 117,  92, 106, 101,
                   98,  84, 112, 132,  99, 118>>,
       dead |-> << 36,  37,  68,  69,  73,  74,  32,  33,   2,   3, 128, 129,  50,
                   51>>,
       dealer |-> 1, round_wind |-> 0, honba |-> 1, riichi_sticks |-> 1,
       scores |-> <<25000, 25000, 25000, 25000>>, is_sanma |-> FALSE],
      [live |-> <<124,  40,   0,   6, 125,  44,   1,  11, 126,  48,   4,  13, 100,
                   56,   5,  49, 104,  60,   9,  54,  72,  64,  10,  58,  76,   8,
                   53,  21,  80,  12,  57,  25,  20,  17,  61,  29,  24, 108,  96,
                   81,  28, 109,  97,  82, 116,  89, 105,  93, 117,  92, 106, 101,
                   98,  84, 112, 132, 107, 118>>,
       dead |-> << 36,  37,  68,  69,  73,  74,  32,  33,   2,   3, 128, 129,  50,
                   51>>,
       dealer |-> 1, round_wind |-> 0, honba |-> 0, riichi_sticks |-> 0,
       scores |-> <<25000, 25000, 25000, 25000>>, is_sanma |-> FALSE],
      [live |-> <<  0,   8,  17,   1,  32,  12,  18,  13,  36,  20,  19,  25,  68,
                   24,  76,  37,  72, 132,  80,  49, 104, 133,  84,  61, 108, 134,
                   56,  73, 109, 135,  60,  86, 110,  40,  64,  97, 112,  44,   4,
                  113, 116,  48,   5, 117, 120,  96,  85, 121, 124, 100,  89, 128,
                   16,  92, 111,  28, 105,  45>>,
       dead |-> << 38,  39,  69,  70,  74, 106,  33,  34,  65,  66, 129, 130,  81,
                   93>>,
       dealer |-> 0, round_wind |-> 0, honba |-> 0, riichi_sticks |-> 0,
       scores |-> <<25000, 25000, 25000, 500>>, is_sanma |-> FALSE],
      [live |-> <<  0,  37,  60,  32,  41,  64,  36,  45,  68,  40,  96,  42,  44,
                  100,  46,  48, 105,  49,  53, 108,  89,  56, 109,  92,  72, 124,
                   97,  73, 125, 112, 104,  80, 113, 120,  81,  76, 121,  57,  84,
                   82,  33, 110,  83, 116,  54>>,
       dead |-> << 38,  50,  69,  70,  74, 106,  34,  35,  65,  66, 128, 129,  90,
                  122>>,
       dealer |-> 0, round_wind |-> 0, honba |-> 2, riichi_sticks |-> 0,
       scores |-> <<35000, 35000, 35000>>, is_sanma |-> TRUE],
      [live |-> <<  4,   5,   8,   0,  12,  17,  20,  32,  24,  28,  29,  36,  40,
                   44,  41,  68,  53,  56,  48,  72,  64,  65,  60, 104,  80,  76,
                   77, 115,  92,  84,  89, 118, 100,  96, 101, 121, 112, 113, 114,
                  126, 116, 117, 120, 130, 124, 128, 125,  13, 132, 133, 129,  25,
                  108, 109, 110, 111,   9,  18>>,
       dead |-> << 37,  38,  69,  70,  73,  74,  33,  34,   1,   2,  57,  58,  49,
                   50>>,
       dealer |-> 0, round_wind |-> 1, honba |-> 3, riichi_sticks |-> 0,
       scores |-> <<25000, 25000, 25000, 25000>>, is_sanma |-> FALSE],
      [live |-> <<  4,  17,   0,   5,  12,  18,  32,   9,  24,  19,  36,  25,  40,
                   16,  68,  41,  53,  28,  72,  48,  64,  44, 104,  60,  80,  56,
                  114,  81,  92,  65, 120,  89, 100,  76, 125, 105, 112,  84, 128,
                  118, 116,  96, 133, 121, 124, 113,   8, 122, 132, 117,  20, 134,
                  108,  97, 109, 110,  10,  93>>,
       dead |-> << 37,  38,  69,  70,  73,  74,  33,  34,   1,   2,  57,  58,  49,
                  111>>,
       dealer |-> 0, round_wind |-> 0, honba |-> 0, riichi_sticks |-> 0,
       scores |-> <<25000, 25000, 25000, 25000>>, is_sanma |-> FALSE],
      [live |-> <<  0,  36,  24,   1,   4,  40,  28,   5,   8,  44,  32,  11,  12,
                   48,  72,  97,  17,  53,  78, 101,  20,  56,  80, 105,  60,  96,
                   49, 124,  64, 100,  54, 125,  68, 104,  57, 126,  76,   9, 120,
                   55,  77,  10, 121,  52, 116,  84,  61,  37, 117,  89,  65,  41,
                  132, 118, 119, 112,  79, 108,  69,  92>>,
       dead |-> << 38,  39,  70,  71,  73,  74,  33,  34,   2,   3,  13,  14,  50,
                   51>>,
       dealer |-> 0, round_wind |-> 0, honba |-> 0, riichi_sticks |-> 0,
       scores |-> <<25000, 25000, 25000, 1000>>, is_sanma |-> FALSE],
      [live |-> <<  0,  36,   8,   5,   1,  37,  20,  12,   2,  38,  24,  29,   3,
                   39,  44,  41,  32,  68,  48,  56,  33,  69,  60,  65,  34,  70,
                   72,  73,  40,   4,  84,  81,  53,  17,  96, 105,  64,  28, 108,
                  109,  80,  76, 112, 113,  92,  89, 116, 120, 104, 100, 124, 128,
                  132, 133, 117, 121,  13,  21>>,
       dead |-> << 25,  26,  61,  62,  97,  98,   9,  10,  45,  46,  85,  71,  49,
                   35>>,
       dealer |-> 0, round_wind |-> 0, honba |-> 0, riichi_sticks |-> 2,
       scores |-> <<25000, 25000, 25000, 25000>>, is_sanma |-> FALSE],
      [live |-> << 36,   0,   1,  40,  32,  33,  44,  41,  45,  48,  54,  57,  53,
                   65,  69,  56,  76,  80,  60,  89,  92,  64, 100, 104,  68, 108,
                  109,  72, 112, 113,  73, 116, 117, 120, 124, 125, 121, 128, 132,
                  133,  84,  96,  85,  77,  81>>,
       dead |-> << 37,  49,  70,  71,  74, 105,  34,  35,  66,  67, 129, 130,  90,
                   97>>,
       dealer |-> 0, round_wind |-> 0, honba |-> 0, riichi_sticks |-> 0,
       scores |-> <<35000, 35000, 35000>>, is_sanma |-> TRUE],
      [live |-> << 56,  68,   5,   9,  57,  69,  17,  20,  58,   1,  28,  32,  60,
                   12,  36,  41,  64,  24,  48,  53, 116,  76,  72,  81, 117,  90,
                   80,  93,   0, 100,  96, 101,   4, 108, 104, 121,   8, 112, 109,
                  125,  84, 120, 113, 129,  89, 124, 128, 133,  92,  40, 132, 110,
                   70, 134, 105, 114, 118, 122, 126,  59,  71>>,
       dead |-> << 37,  38,  44,  45,  73,  74,  33,  34,   2,   3, 130, 131,  49,
                  135>>,
       dealer |-> 3, round_wind |-> 0, honba |-> 0, riichi_sticks |-> 0,
       scores |-> <<25000, 25000, 25000, 25000>>, is_sanma |-> FALSE],
      [live |-> <<120,   0,   1, 121,  32,  33, 122,  40,  44,  36,  53,  56,  37,
                   64,  68,  38,  77,  81,  39,  90,  92,  76, 100, 105,  80, 109,
                  110,  89, 112, 113,  96, 116, 117, 104, 124, 125, 108, 128,  48,
                  123,  84,  93>>,
       dead |-> << 49,  60,  69,  70,  72, 106,  34,  35,  65,  66, 118, 126, 129,
                  132>>,
       dealer |-> 0, round_wind |-> 0, honba |-> 0, riichi_sticks |-> 0,
       scores |-> <<35000, 35000, 35000>>, is_sanma |-> TRUE],
      [live |-> <<  0,  36,   5,  10,   4,  40,  18,  21,   8,  44,  28,  32,  12,
                   48,  41,  45,  17,  53,  54,  57,  20,  56,  65,  69,  60,  96,
                   81,  72,  64, 100,  92,  84,  68, 104, 105,  97,  76, 108, 110,
                  113,  80, 109, 112, 118, 116,   9, 120, 121, 117,  13, 124, 132,
                   85,  19, 125>>,
       dead |-> << 37,  38,  70,  71,  73,  74,  33,  34,   1,   2, 128, 129,  49,
                   50>>,
       dealer |-> 0, round_wind |-> 0, honba |-> 0, riichi_sticks |-> 0,
       scores |-> <<25000, 25000, 25000, 25000>>, is_sanma |-> FALSE],
      [live |-> <<  0,  36,   5,  10,   4,  40,  18,  21,   8,  44,  28,  32,  12,
                   48,  41,  45,  17,  53,  54,  57,  20,  56,  65,  69,  60,  96,
                   81,  72,  64, 100,  92,  84,  68, 104, 105,  97,  76, 108, 110,
                  113,  80, 109, 112, 118, 116,   9, 120, 121, 117,  13, 124, 132,
                  133,   6,  73>>,
       dead |-> << 37,  38,  70,  71,  74,  75,  33,  34,   1,   2, 128, 129,  49,
                   50>>,
       dealer |-> 2, round_wind |-> 1, honba |-> 0, riichi_sticks |-> 0,
       scores |-> <<31000, 23000, 23000, 23000>>, is_sanma |-> FALSE]
    >>

ScenarioWall(sc) ==
    LET n == IF sc.is_sanma THEN 3 ELSE 4
        keep == IF Len(sc.live) < 13 * n + MaxLive THEN Len(sc.live)
                ELSE 13 * n + MaxLive
    IN  WallFromTiles(SubSeq(sc.live, 1, keep), sc.dead, sc.is_sanma)

\* a histogram not yet handed to shanten and is_agari
NewCalc(tiles_34) == [tiles_34 |-> tiles_34, applied |-> FALSE, shanten |-> 8, agari |-> FALSE]

Empty34 == [k \in Kinds |-> 0]

Init ==
    /\ calc = NewCalc(Empty34)
    /\ \E s \in DOMAIN Scenarios :
          LET sc == Scenarios[s] IN
          /\ rs = setup_round(sc.scores, sc.dealer, ScenarioWall(sc), sc.round_wind,
                              sc.honba, sc.riichi_sticks, sc.is_sanma)
          /\ resps = [i \in Seats(rs) |-> NewAvailable(i)]
          /\ game = NewGame(IF sc.is_sanma THEN 3 ELSE 4, FALSE, 30000, sc.round_wind,
                            sc.dealer, sc.honba, sc.riichi_sticks)
    /\ pc = "start"
    /\ current = 0
    /\ available = NewAvailable(0)
    /\ call_action = NoAction
    /\ kan_tile = NoTile
    /\ h = NewHistory

\* run_game, lines 198-203: a round that returned a result is handed to
\* advance_round; a round without a result ends the game loop
AdvanceRound ==
    /\ pc = "done"
    /\ ~rs.result.is_none
    /\ \E a \in {advance_round(game, rs.players, rs.result)} :
          /\ game' = a[1]
          /\ rs' = [rs EXCEPT !.players = a[2]]
    /\ pc' = "advanced"
    /\ UNCHANGED <<current, available, resps, call_action, kan_tile, h, calc>>

Next ==
    \/ Deal
    \/ TurnDraw
    \/ TurnExhausted
    \/ DecideTsumo
    \/ DecideKyuushu
    \/ DecideAnkan
    \/ DecideShouminkan
    \/ DecideKita
    \/ DecideRiichi
    \/ DecideDiscard
    \/ DecideOther
    \/ Chankan
    \/ ClaimRon
    \/ ClaimPon
    \/ ClaimChi
    \/ NoCall
    \/ CallDaiminkan
    \/ CallMeld
    \/ CallDiscard
    \/ CallDiscardForced
    \/ CallRon
    \/ AdvanceRound

Spec == Init /\ [][Next]_vars

\* ------------------------------------------------- shanten against is_agari
\* the counts a kind can have in a histogram
Counts == 0..4
\* the tile totals of a hand with 4, 3, 2, 1 or 0 melds called
HandTotals == {2, 5, 8, 11, 14}
\* the kinds of the exhaustive family: 1m 2m 3m 4m and east
ShantenKinds == {0, 1, 2, 3, 27}
\* six pairs, to which two tiles of SecondKinds are added
SixPairs == [k \in Kinds |-> IF k \in {0, 2, 9, 11, 18, 27} THEN 2 ELSE 0]
SecondKinds == {0, 1, 20, 28}
\* one of each terminal and honor kind, to which one tile is added
Orphans == [k \in Kinds |-> IF k \in YAOCHU_INDICES THEN 1 ELSE 0]

ShantenInputs ==
    {t \in {[k \in Kinds |-> IF k \in ShantenKinds THEN f[k] ELSE 0] :
               f \in [ShantenKinds -> Counts]} : Total34(t) \in HandTotals}
    \cup {[[SixPairs EXCEPT ![k1] = @ + 1] EXCEPT ![k2] = @ + 1] :
            k1 \in SecondKinds, k2 \in SecondKinds}
    \cup {[Orphans EXCEPT ![k] = @ + 1] : k \in Kinds}

InitShanten ==
    /\ calc \in {NewCalc(t) : t \in ShantenInputs}
    /\ rs = setup_round(Scenarios[1].scores, Scenarios[1].dealer, ScenarioWall(Scenarios[1]),
                        Scenarios[1].round_wind, Scenarios[1].honba,
                        Scenarios[1].riichi_sticks, Scenarios[1].is_sanma)
    /\ resps = [i \in Seats(rs) |-> NewAvailable(i)]
    /\ game = NewGame(4, FALSE, 30000, Scenarios[1].round_wind, Scenarios[1].dealer,
                      Scenarios[1].honba, Scenarios[1].riichi_sticks)
    /\ pc = "start"
    /\ current = 0
    /\ available = NewAvailable(0)
    /\ call_action = NoAction
    /\ kan_tile = NoTile
    /\ h = NewHistory

\* shanten and is_agari applied to the histogram
ApplyShanten ==
    /\ ~calc.applied
    /\ calc' = [calc EXCEPT !.applied = TRUE,
                            !.shanten = shanten(calc.tiles_34),
                            !.agari = is_agari(calc.tiles_34)]
    /\ UNCHANGED <<rs, pc, current, available, resps, call_action, kan_tile, h, game>>

NextShanten == ApplyShanten

SpecShanten == InitShanten /\ [][NextShanten]_vars
\* ------------------------------------------------------------- properties
\* a claim window on a discard is open
InDiscardWindow == pc \in {"claim_ron", "call_ron"}

\* C1: in the claim window of a discard, every other seat whose closed tiles
\* with the discarded tile are a complete hand with a yaku, and which was in
\* no furiten before the discard, is offered ron.
C1_EligibleSeatsAreOfferedRon ==
    InDiscardWindow => h.eligible \subseteq h.offered_ron

\* the kinds of the seat's own discard pool
PoolKinds(hand) == {index34(hand.discard_pool[k]) : k \in DOMAIN hand.discard_pool}

\* a kind the thirteen tiles wait for lies in the seat's own discard pool
PermanentFuriten(tiles_34, hand) ==
    \E w \in Kinds :
       /\ tiles_34[w] < 4
       /\ is_agari([tiles_34 EXCEPT ![w] = @ + 1])
       /\ w \in PoolKinds(hand)

\* the seat whose tile is shown to the other seats in the open window
WindowSeat == IF pc = "chankan" THEN current ELSE rs.last_discard_player

\* the closed tiles of the seat at its decision without the drawn tile
BeforeDraw(hand) ==
    [to_34_array(hand) EXCEPT ![index34(hand.draw_tile)] = @ - 1]

\* C2: a seat with a waiting kind in its own discard pool is never offered
\* ron on a tile of another seat, whatever waiting kind the tile is, and is
\* still offered the self-draw win when its draw completes the hand.
C2_PermanentFuriten ==
    /\ (InDiscardWindow \/ pc = "chankan") =>
          \A i \in Seats(rs) \ {WindowSeat} :
             resps[i].can_ron =>
                ~PermanentFuriten(to_34_array(rs.players[i].hand), rs.players[i].hand)
    /\ (pc = "decide" /\ rs.players[current].hand.draw_tile # NoTile) =>
          \E hand \in {rs.players[current].hand} :
             (/\ is_agari(to_34_array(hand))
              /\ PermanentFuriten(BeforeDraw(hand), hand))
                => available.can_tsumo

\* a seat in permanent furiten on one kind sees another of its waiting kinds
\* discarded
C2_Witness ==
    /\ pc = "claim_ron"
    /\ \E i \in Seats(rs) \ {rs.last_discard_player} :
          /\ PermanentFuriten(to_34_array(rs.players[i].hand), rs.players[i].hand)
          /\ index34(rs.last_discard) \notin PoolKinds(rs.players[i].hand)
          /\ is_agari([to_34_array(rs.players[i].hand)
                         EXCEPT ![index34(rs.last_discard)] = @ + 1])

\* C3: on one discard at most one kind of claim is executed; pon or open
\* kan only if no seat won by ron on it, chi only if moreover no seat took
\* the tile for pon or open kan.
C3_ClaimPriority ==
    /\ Cardinality(h.executed) <= 1
    /\ h.executed \subseteq h.declared
    /\ "chi" \in h.executed => h.declared \cap {"pon", "daiminkan"} = {}

\* a pon was executed on a tile the next seat could have taken for chi
C3_Witness ==
    /\ pc = "call_discard"
    /\ h.executed = {"pon"}
    /\ call_action.player # next_player(rs, rs.last_discard_player)
    /\ resps[next_player(rs, rs.last_discard_player)].can_chi # << >>

\* C4: while the claim window on a riichi discard is open, the declarer's
\* score is not yet reduced by the deposit and the pool has not grown.
C4_DepositAfterWindow ==
    (pc = "claim_ron" /\ h.riichi_by # NoPlayer) =>
       /\ rs.players[h.riichi_by].score = h.score_before
       /\ rs.riichi_sticks = h.sticks_before

\* the round is over and has a result
Finished == pc = "done" /\ ~rs.result.is_none

SumChanges == SumOver(0..3, rs.result.score_changes)

\* C5: the score changes of a finished round sum to 1000 for each riichi
\* stick handed to the winner, and to 0 when the round is a draw.
C5_ScoreChangesBalance ==
    Finished =>
       SumChanges = IF rs.result.is_draw THEN 0 ELSE 1000 * rs.riichi_sticks

\* a self-draw win that collects riichi sticks
C5_Witness ==
    /\ Finished
    /\ Len(rs.result.winners) = 1
    /\ rs.result.loser = NoPlayer
    /\ rs.riichi_sticks > 0

\* C6: with only offered answers the round ends with a result that is a
\* draw or names a winner.
C6_OfferedAnswersGiveResult ==
    (pc = "done" /\ h.illegal = 0) =>
       /\ ~rs.result.is_none
       /\ rs.result.is_draw \/ rs.result.winners # << >>

\* C7: after an answer that was not offered the round has stopped with an
\* error.
C7_UnofferedAnswerIsFatal == h.illegal > 0 => pc = "error"

\* C8: after a declared win the score calculator gives no result for, the
\* round has stopped with an error.
C8_NoYakuWinIsError == h.noyaku => pc = "error"

\* the tile and the seat of the window the round ended in
EndTile == IF h.window = "kan" THEN kan_tile ELSE rs.last_discard

EndSeat == IF h.window = "kan" THEN current ELSE rs.last_discard_player

\* the seats that answered RON on the tile and have a hand that scores
RonWinners ==
    {i \in h.ron_seats : ~process_ron(rs, i, EndSeat, EndTile).is_none}

\* the ron payment of the seat in the result
RonPaymentOf(i) ==
    SumSeq([k \in DOMAIN rs.result.score_results |->
              IF rs.result.score_results[k][1] = i
              THEN rs.result.score_results[k][2].ron_payment ELSE 0])

\* the winner nearest after the loser in turn order
NearestWinner ==
    CHOOSE w \in SeqToSet(rs.result.winners) :
       \A v \in SeqToSet(rs.result.winners) :
          (w - rs.result.loser) % rs.num_players <= (v - rs.result.loser) % rs.num_players

C10_HeadBump ==
    (Finished /\ Len(rs.result.winners) >= 2) =>
       /\ rs.result.riichi_sticks_winner = NearestWinner
       /\ \A w \in SeqToSet(rs.result.winners) :
             rs.result.score_changes[w] =
                RonPaymentOf(w) + (IF w = NearestWinner THEN 1000 * rs.riichi_sticks
                                   ELSE 0)

\* two winners and a stick on the table, the nearest winner not the first of
\* the list
C10_Witness ==
    /\ Finished
    /\ Len(rs.result.winners) = 2
    /\ rs.riichi_sticks > 0
    /\ rs.result.winners[1] # NearestWinner


\* ------------------------------------------------------------------ C11
ExhaustiveDone == Finished /\ rs.result.draw_type = "exhaustive"

\* a seat is tenpai when one more tile of a kind it holds fewer than four of
\* completes its closed tiles
TenpaiSeats ==
    {i \in Seats(rs) :
        \E tiles_34 \in {to_34_array(rs.players[i].hand)} :
           \E w \in Kinds : tiles_34[w] < 4 /\ is_agari([tiles_34 EXCEPT ![w] = @ + 1])}

\* C11: at an exhaustive draw with some but not all seats tenpai, the noten
\* seats pay 3000 in total in equal shares and the tenpai seats receive 3000 in
\* total in equal shares; with all or none tenpai no points move; the dealer
\* continues exactly when the dealer is tenpai.
C11_ExhaustiveDrawPayments ==
    ExhaustiveDone =>
       \E T \in {TenpaiSeats} :
       \E N \in {Seats(rs) \ T} :
          /\ IF T # {} /\ N # {}
             THEN /\ \A i \in T : rs.result.score_changes[i] * Cardinality(T) = 3000
                  /\ \A i \in N : rs.result.score_changes[i] * Cardinality(N) = 0 - 3000
             ELSE \A i \in Seats(rs) : rs.result.score_changes[i] = 0
          /\ \A i \in (0..3) \ Seats(rs) : rs.result.score_changes[i] = 0
          /\ rs.result.dealer_continues = (\E i \in T : rs.players[i].is_dealer)

C11_Witness ==
    /\ ExhaustiveDone
    /\ Cardinality(TenpaiSeats) = 2
    /\ ~rs.is_sanma
    /\ \E i \in Seats(rs) \ TenpaiSeats : rs.players[i].is_dealer


\* ------------------------------------------------------------------ C12
AbortiveKinds == {"4wind", "4riichi", "4kan", "kyuushu", "triple_ron"}

AbortiveEnd ==
    /\ pc \in {"done", "advanced"}
    /\ ~rs.result.is_none
    /\ rs.result.is_draw
    /\ rs.result.draw_type \in AbortiveKinds

\* C12: after an abortive draw all score changes are 0, and once the game has
\* advanced the next round is set up with the same dealer and round wind and a
\* honba counter one higher than the aborted round's.
C12_AbortiveDrawKeepsDealer ==
    AbortiveEnd =>
       /\ \A i \in 0..3 : rs.result.score_changes[i] = 0
       /\ pc = "advanced" =>
             /\ game.honba = rs.honba + 1
             /\ game.round_wind = rs.round_wind
             /\ \A i \in Seats(rs) : rs.players[i].is_dealer = (i = dealer_seat(game))

C12_Witness ==
    /\ AbortiveEnd
    /\ pc = "advanced"
    /\ rs.result.draw_type = "4riichi"


\* ------------------------------------------------------------------ C13
\* every seat has discarded, all first discards are one wind kind
FirstDiscardsOneWind ==
    /\ \A i \in Seats(rs) : Len(rs.players[i].hand.discard_pool) >= 1
    /\ \E w \in 27..30 :
          \A i \in Seats(rs) : index34(rs.players[i].hand.discard_pool[1]) = w

\* no seat has made a call or a kan of any kind
NoMeldYet == \A i \in Seats(rs) : rs.players[i].hand.melds = << >>

FourWindsEnd ==
    /\ pc \in {"done", "advanced"}
    /\ ~rs.result.is_none
    /\ rs.result.draw_type = "4wind"

\* C13: in four-player play the four-winds abort is declared only when all
\* four first discards are the same wind and no call or kan (closed kans
\* included) was made before; and with four such discards and no call or kan
\* the round does not go on past the claim window of the fourth discard.
C13_FourWinds ==
    ~rs.is_sanma =>
       /\ FourWindsEnd => (FirstDiscardsOneWind /\ NoMeldYet)
       /\ (pc # "start" /\ FirstDiscardsOneWind /\ NoMeldYet) =>
             \/ pc \in {"claim_ron", "claim_pon", "claim_chi", "call"}
             \/ FourWindsEnd


\* ------------------------------------------------------------------ C14
\* the closed tiles hold at least nine of the thirteen terminal and honor kinds
NineTerminalKinds(hand) ==
    \E tiles_34 \in {to_34_array(hand)} :
       Cardinality({k \in {0, 8, 9, 17, 18, 26, 27, 28, 29, 30, 31, 32, 33} :
                       tiles_34[k] > 0}) >= 9

\* the seat to act holds the tile of its first draw of the round
AtFirstDraw ==
    /\ pc = "decide"
    /\ rs.players[current].hand.draw_tile # NoTile
    /\ rs.players[current].hand.discard_pool = << >>
    /\ rs.players[current].hand.melds = << >>
    /\ rs.players[current].kita_tiles = << >>

\* C14: every seat, the last one in turn order included, is offered the
\* nine-terminals abort at its first draw when it holds nine terminal and honor
\* kinds, and no seat is offered it after its first discard.
C14_NineTerminalsOffered ==
    /\ (AtFirstDraw /\ NineTerminalKinds(rs.players[current].hand)) => available.can_kyuushu
    /\ (pc \in {"decide", "call_discard"}
          /\ rs.players[current].hand.discard_pool # << >>) => ~available.can_kyuushu


\* ------------------------------------------------------------------ C15
\* the claim window of a discard that declared riichi has just opened
RiichiJustDeclared == pc = "claim_ron" /\ h.riichi_by # NoPlayer

RiichiSeats == {i \in Seats(rs) : rs.players[i].hand.is_riichi}

\* C15: a riichi declared through the offered action comes from a closed hand
\* with a score of at least 1000 before the deposit, with at least num_players
\* live tiles left, and leaves the hand tenpai; no seat declares twice, and no
\* score becomes negative during the round.
C15_RiichiPreconditions ==
    /\ RiichiJustDeclared =>
          \E hand \in {rs.players[h.riichi_by].hand} :
             /\ \A k \in DOMAIN hand.melds : hand.melds[k].meld_type = "ankan"
             /\ h.score_before >= 1000
             /\ rs.players[h.riichi_by].score = h.score_before - 1000
             /\ Len(rs.wall.live_wall) >= rs.num_players
             /\ h.riichi_by \in TenpaiSeats
    /\ rs.riichi_declared_count = Cardinality(RiichiSeats)
    /\ pc # "advanced" => \A i \in Seats(rs) : rs.players[i].score >= 0

C15_Witness == RiichiJustDeclared /\ h.score_before = 1000


\* ------------------------------------------------------------------ C16
\* the window pcs, in which resps holds what each seat is offered on the tile
InWindow == pc \in {"claim_ron", "claim_pon", "claim_chi", "call", "call_ron", "chankan"}

\* the closed tiles of a hand by kind, a tile just drawn left out
RestingTiles(hand) ==
    IF hand.draw_tile # NoTile
    THEN [to_34_array(hand) EXCEPT ![index34(hand.draw_tile)] = @ - 1]
    ELSE to_34_array(hand)

ClosedKans(hand) == Cardinality({k \in DOMAIN hand.melds : hand.melds[k].meld_type = "ankan"})

RiichiOffers ==
    /\ InWindow =>
          \A i \in RiichiSeats :
             /\ resps[i].can_pon = << >>
             /\ resps[i].can_daiminkan = << >>
             /\ resps[i].can_chi = << >>
    /\ (pc = "decide" /\ current \in RiichiSeats) =>
          /\ available.can_shouminkan = << >>
          /\ rs.players[current].hand.draw_tile # NoTile
          /\ available.can_discard = <<rs.players[current].hand.draw_tile>>

RiichiHandKept ==
    \A i \in RiichiSeats :
       \E before \in {rs.players[i].hand} :
       \E after \in {rs'.players[i].hand} :
          RestingTiles(before) # RestingTiles(after) => ClosedKans(after) > ClosedKans(before)

\* C16: a seat under riichi is never offered a triplet, open-kan or sequence
\* call nor an added kan, its only discard candidate at a draw is the tile
\* just drawn, and its closed tiles change only through a closed kan.
C16_RiichiHandFrozen == []RiichiOffers /\ [][RiichiHandKept]_vars

\* ------------------------------------------------------------------ C17
\* the step in which the seat in turn draws from the live wall
LiveDraw == pc = "loop" /\ pc' = "decide"

MissedSeatsNotOffered ==
    InDiscardWindow => \A i \in h.missed : ~resps[i].can_ron

TempFuritenAtDraw ==
    LiveDraw =>
       rs'.temp_furiten[current] =
          IF rs.players[current].hand.is_riichi THEN rs.temp_furiten[current] ELSE {}

\* C17: a seat that was passed over on a discard of one of its waiting kinds is
\* offered no ron on any later discard before its own next live-wall draw, and
\* at that draw its temporary-furiten set is emptied exactly when the seat is
\* not under riichi (under riichi the set is kept as it was).
C17_TemporaryFuriten == []MissedSeatsNotOffered /\ [][TempFuritenAtDraw]_vars

\* a later discard would complete the hand of a seat that was passed over
\* before and has not drawn since; that seat holds a temporary-furiten kind
C17_Witness ==
    /\ InDiscardWindow
    /\ \E i \in h.missed \cap Passed(rs, rs.last_discard_player, rs.last_discard) :
          rs.temp_furiten[i] # {}

\* ------------------------------------------------------------------ C18
RiichiLocked == {i \in Seats(rs) : rs.riichi_furiten[i] # {}}

RiichiFuritenKept == \A i \in Seats(rs) : rs.riichi_furiten[i] \subseteq rs'.riichi_furiten[i]

LockedSeatsNotOffered == InWindow => \A i \in RiichiLocked : ~resps[i].can_ron

\* C18: a kind once in a seat's riichi-locked set stays in it in every later
\* state of the round, and a seat whose riichi-locked set is not empty is
\* offered ron in no later window of the round.
C18_RiichiFuritenMonotone == [][RiichiFuritenKept]_vars /\ []LockedSeatsNotOffered

\* ------------------------------------------------------------------ C19
\* the seats that could claim the last discard for a triplet, an open kan or
\* (the next seat only) a sequence
ClaimSeats ==
    {i \in Seats(rs) \ {rs.last_discard_player} :
        \E a \in {get_response_actions(rs, i, rs.last_discard, rs.last_discard_player)} :
           a.can_pon # << >> \/ a.can_daiminkan # << >> \/ a.can_chi # << >>}

\* play has moved on to the next draw after the discard of a caller
AfterCallDiscard == pc = "loop" /\ h.window = "call_discard" /\ ~rs.is_finished

\* C19: after an accepted triplet or sequence call the caller discards without
\* drawing, and the claim window on that discard is a full one: play moves on
\* to the next draw only when no seat was left with an unasked triplet,
\* open-kan or sequence claim on the caller's discard.
C19_FullWindowAfterCall ==
    /\ pc = "call_discard" => rs.players[current].hand.draw_tile = NoTile
    /\ AfterCallDiscard => ClaimSeats = {}

\* ------------------------------------------------------------------ C20
\* C20: for every histogram with every count at most 4 and a tile total of
\* 2, 5, 8, 11 or 14, shanten returns -1 exactly when is_agari is true.
C20_ShantenAgari ==
    (/\ calc.applied
     /\ \A k \in Kinds : calc.tiles_34[k] \in Counts
     /\ Total34(calc.tiles_34) \in HandTotals)
    => (calc.shanten = -1 <=> calc.agari)

\* a complete hand of fourteen tiles was evaluated
C20_Witness ==
    /\ calc.applied
    /\ Total34(calc.tiles_34) = 14
    /\ calc.agari
    /\ calc.shanten = -1

\* ------------------------------------------------------------------ C21
KanTypes == {"ankan", "daiminkan", "shouminkan"}

KanMelds(hand) == Cardinality({k \in DOMAIN hand.melds : hand.melds[k].meld_type \in KanTypes})

\* the tiles have been dealt
Dealt == pc # "start"

\* C21 as stated: closed tiles + 3 per sequence or triplet meld + 4 per kan
\* meld is 13 or 14 for every seat in every state after the deal.
C21_HandSizeKanFour ==
    Dealt => \A i \in Seats(rs) :
       \E hand \in {rs.players[i].hand} :
          Len(hand.closed_tiles) + 3 * (Len(hand.melds) - KanMelds(hand))
             + 4 * KanMelds(hand) \in {13, 14}

\* C21 amended: closed tiles + 3 per meld of any type, a kan included, is 13
\* or 14 for every seat in every state after the deal.
C21_HandSize ==
    Dealt => \A i \in Seats(rs) :
       \E hand \in {rs.players[i].hand} :
          Len(hand.closed_tiles) + 3 * Len(hand.melds) \in {13, 14}

\* a seat with a kan and a seat with a called triplet or sequence, after the
\* replacement draw
C21_Witness ==
    /\ Dealt
    /\ \E i \in Seats(rs) :
          /\ KanMelds(rs.players[i].hand) >= 1
          /\ Len(rs.players[i].hand.closed_tiles) + 3 * Len(rs.players[i].hand.melds) = 14
    /\ \E i \in Seats(rs) :
          Len(rs.players[i].hand.melds) > KanMelds(rs.players[i].hand)

\* ------------------------------------------------------------------ C22
MinNat(a, b) == IF a <= b THEN a ELSE b

DoraRevealedByKans ==
    /\ rs.wall.dora_revealed = MinNat(5, 1 + rs.kan_count_total)
    /\ rs.wall.dora_revealed \in 1..5
    /\ rs.wall.rinshan_drawn \in 0..4

\* a replacement draw: the k-th one hands dead-wall slot 14 - k (slots counted
\* from 0) to a seat as its drawn tile
ReplacementInOrder ==
    rs'.wall.rinshan_drawn # rs.wall.rinshan_drawn =>
       \E k \in {rs.wall.rinshan_drawn + 1} :
          /\ k \in 1..4
          /\ rs'.wall.rinshan_drawn = k
          /\ \E i \in Seats(rs) :
                /\ rs'.players[i].hand.draw_tile = rs.wall.dead_wall[(14 - k) + 1]
                /\ rs.wall.dead_wall[(14 - k) + 1] \in SeqToSet(rs'.players[i].hand.closed_tiles)
                /\ rs.wall.dead_wall[(14 - k) + 1] \notin SeqToSet(rs.players[i].hand.closed_tiles)

\* a kan or north declaration made after four replacement draws
FifthRequest ==
    /\ rs.wall.rinshan_drawn = 4
    /\ \E i \in Seats(rs) :
          \/ Len(rs'.players[i].hand.melds) > Len(rs.players[i].hand.melds)
          \/ KanMelds(rs'.players[i].hand) > KanMelds(rs.players[i].hand)
          \/ Len(rs'.players[i].kita_tiles) > Len(rs.players[i].kita_tiles)

\* the fifth request hands out no tile: no seat's closed tiles gain one
FifthReturnsNothing ==
    FifthRequest =>
       /\ rs'.wall.rinshan_drawn = 4
       /\ \A i \in Seats(rs) : SeqToSet(rs'.players[i].hand.closed_tiles)
                                   \subseteq SeqToSet(rs.players[i].hand.closed_tiles)

KanRobbed == pc = "chankan" /\ pc' = "done" /\ rs'.result.winners # << >>

KanNotPerformed ==
    KanRobbed =>
       /\ rs'.players[current].hand = rs.players[current].hand
       /\ kan_tile \in SeqToSet(rs'.players[current].hand.closed_tiles)
       /\ \E k \in DOMAIN rs'.players[current].hand.melds :
             /\ rs'.players[current].hand.melds[k].meld_type = "pon"
             /\ index34(rs'.players[current].hand.melds[k].called_tile) = index34(kan_tile)
       /\ rs'.wall = rs.wall
       /\ rs'.kan_count_total = rs.kan_count_total
       /\ ~rs'.result.is_draw
       /\ rs'.result.loser = current
       /\ current \notin SeqToSet(rs'.result.winners)
       /\ rs'.result.score_changes[current]
             = (IF rs'.result.riichi_sticks_winner = current THEN rs.riichi_sticks * 1000 ELSE 0)
               - total_from_loser(rs'.result.score_results)
       /\ total_from_loser(rs'.result.score_results) > 0

\* C23: when an opponent wins by ron on the tile of a declared added kan the
\* kan is not performed: the declarer's triplet meld and closed tiles are as
\* before (the tile still in hand), no dora indicator is revealed, no
\* replacement tile is drawn, the kan count is unchanged, and the round ends
\* as a ron that the declarer pays.
C23_RobbedKanNotPerformed == [][KanNotPerformed]_vars

\* a round ended by a ron on the tile of an added kan
C23_Witness ==
    /\ pc = "done"
    /\ h.window = "kan"
    /\ h.executed = {"ron"}
    /\ rs.result.winners # << >>
    /\ rs.result.loser = current

\* ------------------------------------------------------------------ C24
\* the kan window has been answered
KanWindowAnswered == h.window = "kan" /\ pc # "chankan"

\* every seat that answered RON on the tile of the added kan has won
RobbersWin ==
    (KanWindowAnswered /\ h.ron_seats # {}) =>
       /\ pc = "done"
       /\ h.executed = {"ron"}
       /\ h.ron_seats \subseteq SeqToSet(rs.result.winners)

\* every win on the tile of an added kan counts the robbing-kan yaku
RobbedKanScored ==
    (KanWindowAnswered /\ pc = "done" /\ h.executed = {"ron"}) =>
       \A k \in DOMAIN rs.result.score_results :
          \E y \in DOMAIN rs.result.score_results[k][2].yaku :
             rs.result.score_results[k][2].yaku[y] = <<"chankan", 1>>

\* C24: a ron on the tile of an added kan is scored with the robbing-kan yaku
\* (1 han), so every seat that answers RON in the kan window with a complete
\* hand wins, also when its hand has no other yaku.
C24_RobbedKanYaku == RobbersWin /\ RobbedKanScored

\* ------------------------------------------------------------------ C25
\* a sequence, triplet or kan is made in the step
MeldMade == \E j \in Seats(rs) : rs'.players[j].hand.melds # rs.players[j].hand.melds

\* the flag is set in the state after the declaring discard
IppatsuSetAtRiichi ==
    \A i \in Seats(rs) :
       (~rs.players[i].hand.is_riichi /\ rs'.players[i].hand.is_riichi)
          => rs'.players[i].hand.is_ippatsu

\* the flag is cleared only by a call or kan, or in a step of the declaring
\* seat's own next turn
IppatsuKept ==
    \A i \in Seats(rs) :
       (rs.players[i].hand.is_ippatsu /\ ~rs'.players[i].hand.is_ippatsu)
          => \/ MeldMade
             \/ (pc \in {"loop", "decide"} /\ current = i)

\* C25: a riichi declarer's ippatsu flag is set after the declaring discard and
\* is cleared only when a call (sequence, triplet or any kan) is made or the
\* declaring seat has drawn again; an opponent's uncalled discard leaves it set.
C25_IppatsuKept == [][IppatsuSetAtRiichi /\ IppatsuKept]_vars

\* ------------------------------------------------------------------ C26
\* a self-draw win on the winner's first draw: the winner has discarded and
\* declared nothing, no seat has made a call or kan, and for the dealer no
\* seat has discarded
FirstDrawWin ==
    /\ pc = "done"
    /\ h.tsumo_by # NoPlayer
    /\ ~rs.result.is_none
    /\ rs.result.winners = <<h.tsumo_by>>
    /\ \A j \in Seats(rs) : rs.players[j].hand.melds = << >> /\ rs.players[j].kita_tiles = << >>
    /\ rs.players[h.tsumo_by].hand.discard_pool = << >>
    /\ rs.players[h.tsumo_by].is_dealer =>
          \A j \in Seats(rs) : rs.players[j].hand.discard_pool = << >>

WinYaku == rs.result.score_results[1][2].yaku

\* C26: a self-draw win on a seat's very first draw, before any call and
\* before any discard of its own (for the dealer: before any discard), counts
\* the yakuman blessing of heaven for the dealer and blessing of earth for a
\* non-dealer.
C26_FirstDrawYakuman ==
    FirstDrawWin =>
       \E y \in DOMAIN WinYaku :
          WinYaku[y] = (IF rs.players[h.tsumo_by].is_dealer THEN <<"tenhou", 13>>
                        ELSE <<"chiihou", 13>>)

(* C27: a round that ended as an exhaustive draw has an empty live wall,     *)
(* whatever number of kans and north declarations were made: the exhaustive  *)
(* draw is never declared while tiles remain in the live wall.               *)
C27_ExhaustiveOnlyWhenEmpty ==
    ExhaustiveDone => is_empty(rs.wall)

(* C28: across a round and its hand-over to the game, (the sum of all seats' *)
(* scores) + 1000 x (riichi sticks in the table pool) keeps its value; the   *)
(* table pool is the round's pool while the round runs and the game's pool   *)
(* once advance_round has taken the result, so the sticks deposited in a     *)
(* round that ends in a draw are in the pool handed to the next round.       *)
TablePool == IF pc = "advanced" THEN game.riichi_sticks ELSE rs.riichi_sticks

TableTotal ==
    SumOver(Seats(rs), [i \in Seats(rs) |-> rs.players[i].score]) + 1000 * TablePool

TotalKept == TableTotal' = TableTotal

C28_PointsConserved == [][TotalKept]_vars

(* C29: in a half game in which no seat's score is below 0, the game is      *)
(* marked finished only by a round that is the last round of the South wind  *)
(* (South 4, or South 3 with three players): rounds are played in order, so  *)
(* a game finished by an earlier round never played the last South round.    *)
NoSeatBelowZero == \A i \in Seats(rs) : rs.players[i].score >= 0

LastSouthPlayed ==
    /\ rs.round_wind = 1
    /\ rs.players[game.num_players - 1].is_dealer

C29_HalfGameReachesLastSouth ==
    (/\ pc = "advanced"
     /\ ~game.is_tonpuu
     /\ game.is_finished
     /\ NoSeatBelowZero) => LastSouthPlayed

(* C30: at the decision point right after a seat's triplet or sequence call  *)
(* the seat is offered only discards of tiles of its closed hand: no         *)
(* self-draw win, riichi, closed kan, added kan or nine-terminals abort.     *)
AfterMeldCall == pc = "call_discard"

C30_OnlyDiscardsAfterCall ==
    AfterMeldCall =>
       /\ ~available.can_tsumo
       /\ ~available.can_riichi
       /\ available.can_ankan = << >>
       /\ available.can_shouminkan = << >>
       /\ ~available.can_kyuushu
       /\ available.can_discard # << >>
       /\ SeqToSet(available.can_discard) \subseteq
             SeqToSet(rs.players[current].hand.closed_tiles)

============================================================================
